---------------------------- MODULE Spec2Model ----------------------------
(***************************************************************************)
(* Model of the public booking flow of cal-frontend-v3:                    *)
(*   - the booking state store        src/src/hooks/use-booking-state.ts   *)
(*   - the availability query, slot resolution, date change and the        *)
(*     booking form                   src/src/pages/external_page/         *)
(*                                    _components/booking-calendar.tsx     *)
(*   - the request layer              src/unnamed/part_003 (lib/api),      *)
(*                                    src/src/lib/axios-client.ts          *)
(*                                                                         *)
(* Text is modelled as sequences of one-character strings, so formatting,  *)
(* padding, percent-encoding and parsing are computed character by         *)
(* character.  Calendar dates are records [year, month, day].              *)
(***************************************************************************)
EXTENDS Integers, Sequences, FiniteSets, TLC

(***************************************************************************)
(* Characters and numbers                                                  *)
(***************************************************************************)
Digits == <<"0", "1", "2", "3", "4", "5", "6", "7", "8", "9">>

DigitChar(n) == Digits[n + 1]

IsDigit(c) == \E i \in 1..10 : Digits[i] = c

DigitVal(c) == CHOOSE n \in 0..9 : Digits[n + 1] = c

\* Number.prototype.toString() of a non-negative integer.
RECURSIVE ToStr(_)
ToStr(n) == IF n < 10 THEN <<DigitChar(n)>>
            ELSE Append(ToStr(n \div 10), DigitChar(n % 10))

\* String.prototype.padStart(w, '0'): pads on the left, never truncates.
RECURSIVE PadStart(_, _)
PadStart(s, w) == IF Len(s) >= w THEN s ELSE PadStart(<<"0">> \o s, w)

\* parseInt of a string of decimal digits.
RECURSIVE ParseInt(_)
ParseInt(s) == IF Len(s) = 0 THEN 0
               ELSE 10 * ParseInt(SubSeq(s, 1, Len(s) - 1)) + DigitVal(s[Len(s)])

AllDigits(s) == \A i \in 1..Len(s) : IsDigit(s[i])

(***************************************************************************)
(* Calendar arithmetic (proleptic Gregorian), as Date.UTC, toISOString and *)
(* date-fns format compute it: through the day number since 1970-01-01.    *)
(***************************************************************************)
MkDate(y, m, d) == [year |-> y, month |-> m, day |-> d]

IsLeap(y) == (y % 4 = 0 /\ y % 100 # 0) \/ y % 400 = 0

DaysInMonth(y, m) ==
    IF m = 2 THEN (IF IsLeap(y) THEN 29 ELSE 28)
    ELSE IF m \in {4, 6, 9, 11} THEN 30 ELSE 31

\* ECMAScript DayFromYear: day number of January 1st of year y.
DayFromYear(y) ==
    365 * (y - 1970) + ((y - 1969) \div 4) - ((y - 1901) \div 100)
        + ((y - 1601) \div 400)

RECURSIVE DaysBeforeMonth(_, _)
DaysBeforeMonth(y, m) ==
    IF m = 1 THEN 0 ELSE DaysBeforeMonth(y, m - 1) + DaysInMonth(y, m - 1)

\* ECMAScript MakeDay(year, month0, date): month0 is 0-based and may exceed
\* 11 (it carries into the year); date may exceed the month's length.
MakeDay(y, month0, date) ==
    LET ym == y + (month0 \div 12)
        mn == (month0 % 12) + 1
    IN  DayFromYear(ym) + DaysBeforeMonth(ym, mn) + date - 1

\* ECMAScript YearFromTime on a day number.
RECURSIVE YearFromDay(_, _)
YearFromDay(t, y) ==
    IF DayFromYear(y) > t THEN YearFromDay(t, y - 1)
    ELSE IF DayFromYear(y + 1) <= t THEN YearFromDay(t, y + 1)
    ELSE y

RECURSIVE MonthFromDayInYear(_, _, _)
MonthFromDayInYear(y, dayInYear, m) ==
    IF dayInYear < DaysBeforeMonth(y, m) + DaysInMonth(y, m) THEN m
    ELSE MonthFromDayInYear(y, dayInYear, m + 1)

\* The calendar date of a day number (YearFromTime, MonthFromTime,
\* DateFromTime).
DateFromDay(t) ==
    LET y  == YearFromDay(t, 1970 + (t \div 365))
        dy == t - DayFromYear(y)
        m  == MonthFromDayInYear(y, dy, 1)
    IN  MkDate(y, m, dy - DaysBeforeMonth(y, m) + 1)

DayNumber(date) == MakeDay(date.year, date.month - 1, date.day)

WeekdayNames ==
    <<"SUNDAY", "MONDAY", "TUESDAY", "WEDNESDAY", "THURSDAY", "FRIDAY",
      "SATURDAY">>

\* ECMAScript WeekDay: 1970-01-01 was a Thursday (4).
WeekDay(t) == (t + 4) % 7

(***************************************************************************)
(* Absent values.  A missing `date` parameter is NoDate; a missing `slot`  *)
(* parameter is NoSlot, the empty text: every test the code makes on a     *)
(* slot (!slot, !selectedSlot) is a falsiness test, which null and the     *)
(* empty string share.                                                     *)
(***************************************************************************)
NoDate == [none |-> TRUE]

NoSlot == <<>>

(***************************************************************************)
(* date-fns format(selectedDate.toDate(timezone), ...).                    *)
(* toDate(timezone) is the instant of midnight of the date in `timezone`;  *)
(* format renders that instant in the BROWSER's zone.  With offsets in     *)
(* hours east of UTC, the local wall clock at that instant is midnight     *)
(* plus (local - tz) hours of the selected date, which is the day before   *)
(* whenever the browser is west of the selected zone.                      *)
(***************************************************************************)
FloorDiv(a, b) == IF a >= 0 THEN a \div b ELSE -((-a + b - 1) \div b)

LocalDateOf(date, tzOffset, browserOffset) ==
    DateFromDay(DayNumber(date) + FloorDiv(browserOffset - tzOffset, 24))

\* format(d, "yyyy-MM-dd")
FormatYmd(date) ==
    PadStart(ToStr(date.year), 4) \o <<"-">> \o PadStart(ToStr(date.month), 2)
        \o <<"-">> \o PadStart(ToStr(date.day), 2)

\* format(d, "EEEE").toUpperCase()
FormatWeekday(date) == WeekdayNames[WeekDay(DayNumber(date)) + 1]

(***************************************************************************)
(* encodeURIComponent / decodeURIComponent over the characters that occur  *)
(* in slot strings.                                                        *)
(***************************************************************************)
EscapeOf(c) ==
    IF c = ":" THEN <<"%", "3", "A">>
    ELSE IF c = "%" THEN <<"%", "2", "5">>
    ELSE IF c = " " THEN <<"%", "2", "0">>
    ELSE <<c>>

RECURSIVE EncodeURIComponent(_)
EncodeURIComponent(s) ==
    IF Len(s) = 0 THEN <<>> ELSE EscapeOf(Head(s)) \o EncodeURIComponent(Tail(s))

URIError == <<"URIError">>

UnescapeOf(h1, h2) ==
    IF h1 = "3" /\ h2 \in {"A", "a"} THEN <<":">>
    ELSE IF h1 = "2" /\ h2 = "5" THEN <<"%">>
    ELSE IF h1 = "2" /\ h2 = "0" THEN <<" ">>
    ELSE URIError

RECURSIVE DecodeURIComponent(_)
DecodeURIComponent(s) ==
    IF Len(s) = 0 THEN <<>>
    ELSE IF Head(s) # "%"
         THEN LET rest == DecodeURIComponent(Tail(s))
              IN  IF rest = URIError THEN URIError ELSE <<Head(s)>> \o rest
    ELSE IF Len(s) < 3 THEN URIError
    ELSE LET c    == UnescapeOf(s[2], s[3])
             rest == DecodeURIComponent(SubSeq(s, 4, Len(s)))
         IN  IF c = URIError \/ rest = URIError THEN URIError ELSE c \o rest

(***************************************************************************)
(* date-fns parse(slot, "HH:mm", new Date()) followed by getHours() and    *)
(* getMinutes().  parse builds a Date in the browser's LOCAL time on       *)
(* today's date.  On the day the browser's zone springs forward, a local   *)
(* wall-clock hour in the skipped interval does not exist and the Date is  *)
(* moved one hour on (ECMAScript interprets such a local time with the     *)
(* offset before the transition).  gapHours is the set of local hours      *)
(* that today skips: {} on an ordinary day, {2} on a US spring-forward     *)
(* day.                                                                    *)
(***************************************************************************)
InvalidDate == [invalid |-> TRUE]

ParseHHmm(slot, gapHours) ==
    IF /\ Len(slot) = 5
       /\ slot[3] = ":"
       /\ AllDigits(SubSeq(slot, 1, 2)) /\ AllDigits(SubSeq(slot, 4, 5))
       /\ ParseInt(SubSeq(slot, 1, 2)) <= 23
       /\ ParseInt(SubSeq(slot, 4, 5)) <= 59
    THEN LET h == ParseInt(SubSeq(slot, 1, 2))
         IN  [hours   |-> IF h \in gapHours THEN h + 1 ELSE h,
              minutes |-> ParseInt(SubSeq(slot, 4, 5))]
    ELSE InvalidDate

NaNText == <<"N", "a", "N">>

\* getHours().toString().padStart(2, '0'), "NaN" for an Invalid Date
HoursText(parsed) ==
    IF parsed = InvalidDate THEN NaNText ELSE PadStart(ToStr(parsed.hours), 2)

MinutesText(parsed) ==
    IF parsed = InvalidDate THEN NaNText ELSE PadStart(ToStr(parsed.minutes), 2)

(***************************************************************************)
(* handleSelectSlot: the new value of selectedSlot.                        *)
(***************************************************************************)
UtcDateTimeString(date, slot, gapHours) ==
    LET parsedSlotTime == ParseHHmm(slot, gapHours)
    IN  ToStr(date.year) \o <<"-">> \o PadStart(ToStr(date.month), 2) \o <<"-">>
            \o PadStart(ToStr(date.day), 2) \o <<"T">>
            \o HoursText(parsedSlotTime) \o <<":">> \o MinutesText(parsedSlotTime)

HandleSelectSlotValue(date, slot, gapHours) ==
    IF date = NoDate \/ slot = NoSlot THEN NoSlot
    ELSE EncodeURIComponent(UtcDateTimeString(date, slot, gapHours))


(***************************************************************************)
(* Time zones.  The booking state's `timezone` is an IANA name; the model  *)
(* needs only its UTC offset on the dates it uses (June 2025).             *)
(***************************************************************************)
Zones == {"America/New_York", "Asia/Tokyo"}

TzOffset(zone) == IF zone = "America/New_York" THEN -4 ELSE 9

\* getLocalTimeZone(): the browser's zone, the default of `timezone`.
LocalTimeZone(offset) == IF offset = -4 THEN "America/New_York" ELSE "Asia/Tokyo"

(***************************************************************************)
(* State                                                                   *)
(***************************************************************************)
VARIABLES
    selectedDate,       \* useQueryState("date"): a date record or NoDate
    selectedSlot,       \* useQueryState("slot"): text or NoSlot
    next,               \* useQueryState("next")
    timezone,           \* useQueryState("timezone")
    hourType,           \* useQueryState("hourType"): "12h" | "24h"
    isSuccess,          \* useQueryState("success")
    cache,              \* react-query cache: the availability_single_event entries
    fetching,           \* query keys with a request in flight
    pendingInvalidate,  \* setTimeout(invalidateQueries, 50) callbacks not yet run
    meetLink,           \* BookingForm useState("")
    duration,           \* BookingForm prop
    inFlight,           \* booking requests sent and not yet answered
    mutationStatus,     \* status of the mutation the form's observer follows
    isPending,          \* isPending as the last render of BookingForm captured it
    lastPayload,        \* payload of the last mutate() call
    page,               \* "booking", or "entry" after window.location.href = "/"
    session,            \* the auth store: user, access token, expiry present?
    browserOffset,      \* environment: UTC offset of the browser's zone
    gapHours,           \* environment: local hours today's DST change skips
    slotOrigin,         \* history: where the value of selectedSlot came from
    dialog,             \* NewEventDialog: its useState values, form and requests
    oauth,              \* useOAuthHandler: the URL's query parameters and effects
    classification,     \* a call of the calendar provider classifier and its result
    api,                \* a request through an axios instance and how it ended
    selector            \* CalendarSelector: the calendars fetched, offered and selected

bookingVars == <<selectedDate, selectedSlot, next, timezone, hourType, isSuccess>>
queryVars == <<cache, fetching, pendingInvalidate>>
formVars == <<meetLink, duration, inFlight, mutationStatus, isPending, lastPayload>>
appVars == <<page, session>>
envVars == <<browserOffset, gapHours>>
serviceVars == <<api, selector>>
adminVars == <<dialog, oauth, classification, serviceVars>>
vars == <<bookingVars, queryVars, formVars, appVars, envVars, slotOrigin, adminVars>>

(***************************************************************************)
(* The availability query (booking-calendar.tsx, useQuery)                 *)
(***************************************************************************)
EventId == "E1"

\* format(selectedDate.toDate(timezone), "yyyy-MM-dd")
SelectedDateStr(date, zone, bOffset) ==
    FormatYmd(LocalDateOf(date, TzOffset(zone), bOffset))

\* queryKey: ["availability_single_event", eventId, timezone,
\*            selectedDate && format(...)]; the last element is null (here
\* the empty text) while no date is selected.
QueryKey(date, zone, bOffset) ==
    [eventId |-> EventId,
     timezone |-> zone,
     date |-> IF date = NoDate THEN <<>> ELSE SelectedDateStr(date, zone, bOffset)]

CurrentKey == QueryKey(selectedDate, timezone, browserOffset)

NoData == [none |-> TRUE]

\* useQuery's `data`: what the cache holds under the observer's key.
DataFor(c, key) ==
    IF \E e \in c : e.key = key THEN CHOOSE e \in c : e.key = key ELSE NoData

DataShown == DataFor(cache, CurrentKey)

\* One cache entry.  forKey records, for the properties, the key of the
\* request that the payload answers.
CacheEntry(key, requestKey, payload) ==
    [key |-> key, forKey |-> requestKey,
     hasData |-> payload.hasData, data |-> payload.data]

StoreEntry(c, entry) == {e \in c : e.key # entry.key} \cup {entry}

(***************************************************************************)
(* Slot resolution (booking-calendar.tsx, timeSlots)                       *)
(***************************************************************************)
NotFound == [none |-> TRUE]

\* data.data.find(day => day.dateStr === selectedDateStr)
RECURSIVE FindByDateStr(_, _)
FindByDateStr(days, str) ==
    IF days = <<>> THEN NotFound
    ELSE IF Head(days).dateStr = str THEN Head(days)
    ELSE FindByDateStr(Tail(days), str)

\* data.data.find(day => day.day === dayOfWeek)
RECURSIVE FindByDay(_, _)
FindByDay(days, name) ==
    IF days = <<>> THEN NotFound
    ELSE IF Head(days).day = name THEN Head(days)
    ELSE FindByDay(Tail(days), name)

\* match.slots || []
SlotsOrEmpty(day) == IF day.hasSlots THEN day.slots ELSE <<>>

ResolveTimeSlots(date, data, zone, bOffset) ==
    IF date = NoDate \/ data = NoData THEN <<>>
    ELSE IF ~data.hasData THEN <<>>
    ELSE LET local == LocalDateOf(date, TzOffset(zone), bOffset)
             exactDateMatch == FindByDateStr(data.data, FormatYmd(local))
             dayOfWeekMatch == FindByDay(data.data, FormatWeekday(local))
         IN  IF exactDateMatch # NotFound THEN SlotsOrEmpty(exactDateMatch)
             ELSE IF dayOfWeekMatch # NotFound THEN SlotsOrEmpty(dayOfWeekMatch)
             ELSE <<>>

TimeSlots == ResolveTimeSlots(selectedDate, DataShown, timezone, browserOffset)


(***************************************************************************)
(* Bounds and the finite sets the inputs are drawn from                    *)
(***************************************************************************)
MaxPendingInvalidate == 1

MaxInFlight == 2

T0900 == <<"0", "9", ":", "0", "0">>
T0930 == <<"0", "9", ":", "3", "0">>
T0230 == <<"0", "2", ":", "3", "0">>

D1 == MkDate(2025, 6, 3)
D2 == MkDate(2025, 6, 10)

FlowDates == {D1, D2}

Day(dateStr, name, slots) ==
    [dateStr |-> dateStr, day |-> name, hasSlots |-> TRUE, slots |-> slots]

Payload(days) == [hasData |-> TRUE, data |-> days]

\* What the server answers in the flow: the event's days, one matching D1
\* by date (and D2 by weekday), one matching 2025-06-02 by date (and
\* 2025-06-09 by weekday).
FlowPayloads ==
    {Payload(<<Day(FormatYmd(D1), "TUESDAY", <<T0900, T0930>>),
               Day(FormatYmd(MkDate(2025, 6, 2)), "MONDAY", <<T0230>>)>>)}

\* Values of the `slot` URL parameter on arrival: absent, a link written
\* by hand, a link resumed from an earlier visit.
UrlSlots ==
    {NoSlot,
     <<"2", "0", "2", "5", "-", "0", "6", "-", "0", "4", "T", "1", "7", ":",
       "4", "5">>}

(***************************************************************************)
(* Optional strings.  A parameter or field that may be missing is Absent   *)
(* or Some(text); JavaScript's falsiness test holds for Absent and for     *)
(* the empty string.                                                       *)
(***************************************************************************)
Absent == <<>>

Some(text) == <<text>>

Truthy(opt) == opt # Absent /\ opt[1] # ""

(***************************************************************************)
(* Calendar provider classifier (types.ts)                                 *)
(***************************************************************************)
GOOGLE == "google"
OUTLOOK == "outlook"

UpperCaseLetters == "ABCDEFGHIJKLMNOPQRSTUVWXYZ"
LowerCaseLetters == "abcdefghijklmnopqrstuvwxyz"

LowerOf(c) ==
    IF \E i \in 1..Len(UpperCaseLetters) : SubSeq(UpperCaseLetters, i, i) = c
    THEN LET i == CHOOSE j \in 1..Len(UpperCaseLetters) :
                      SubSeq(UpperCaseLetters, j, j) = c
         IN  SubSeq(LowerCaseLetters, i, i)
    ELSE c

\* String.prototype.toLowerCase
RECURSIVE ToLowerCase(_)
ToLowerCase(text) ==
    IF Len(text) = 0 THEN ""
    ELSE LowerOf(SubSeq(text, 1, 1)) \o ToLowerCase(SubSeq(text, 2, Len(text)))

\* String.prototype.includes
Includes(text, pattern) ==
    \E i \in 1..(Len(text) - Len(pattern) + 1) :
        SubSeq(text, i, i + Len(pattern) - 1) = pattern

\* value?.toLowerCase() || ''
LowerOrEmpty(opt) == IF opt = Absent THEN "" ELSE ToLowerCase(opt[1])

\* [calendarId?.toLowerCase() || '', calendarName?.toLowerCase() || ''].join(' ')
SearchTexts(calendarId, calendarName) ==
    LowerOrEmpty(calendarId) \o " " \o LowerOrEmpty(calendarName)

MicrosoftGraphPatterns == {"aqmkad", "aamkad", "mqmkad", "ogmkad"}

OutlookPatterns ==
    {"@outlook.", "@hotmail.", "@live.", "@msn.", "outlook", "microsoft",
     "office365", "exchange", "outlook_calendar", "microsoft_calendar",
     "graph.microsoft", "office.com"}

GooglePatterns == {"@gmail.", "@googlemail.", "google", "calendar.google", "primary"}

\* patterns.some(pattern => searchTexts.includes(pattern))
SomeIncluded(patterns, text) == \E pattern \in patterns : Includes(text, pattern)

GetCalendarProviderGoogleFirst(calendarId, calendarName) ==
    IF ~Truthy(calendarId) /\ ~Truthy(calendarName) THEN GOOGLE
    ELSE LET searchTexts == SearchTexts(calendarId, calendarName)
         IN  IF SomeIncluded(GooglePatterns, searchTexts) THEN GOOGLE
             ELSE IF SomeIncluded(MicrosoftGraphPatterns, searchTexts) THEN OUTLOOK
             ELSE IF SomeIncluded(OutlookPatterns, searchTexts) THEN OUTLOOK
             ELSE GOOGLE

GetCalendarProviderWithoutPrimary(calendarId, calendarName) ==
    IF ~Truthy(calendarId) /\ ~Truthy(calendarName) THEN GOOGLE
    ELSE LET searchTexts == SearchTexts(calendarId, calendarName)
         IN  IF SomeIncluded(MicrosoftGraphPatterns, searchTexts) THEN OUTLOOK
             ELSE IF SomeIncluded(OutlookPatterns, searchTexts) THEN OUTLOOK
             ELSE IF SomeIncluded(GooglePatterns \ {"primary"}, searchTexts) THEN GOOGLE
             ELSE OUTLOOK

\* getCalendarProvider(calendarId, calendarName)
GetCalendarProviderGoogleBeforeOutlook(calendarId, calendarName) ==
    IF ~Truthy(calendarId) /\ ~Truthy(calendarName) THEN GOOGLE
    ELSE LET searchTexts == SearchTexts(calendarId, calendarName)
         IN  IF SomeIncluded(MicrosoftGraphPatterns, searchTexts) THEN OUTLOOK
             ELSE IF SomeIncluded(GooglePatterns, searchTexts) THEN GOOGLE
             ELSE IF SomeIncluded(OutlookPatterns, searchTexts) THEN OUTLOOK
             ELSE GOOGLE

GetCalendarProvider(calendarId, calendarName) ==
    IF ~Truthy(calendarId) /\ ~Truthy(calendarName) THEN GOOGLE
    ELSE LET searchTexts == SearchTexts(calendarId, calendarName)
         IN  IF SomeIncluded(MicrosoftGraphPatterns, searchTexts) THEN OUTLOOK
             ELSE IF SomeIncluded(OutlookPatterns, searchTexts) THEN OUTLOOK
             ELSE IF SomeIncluded(GooglePatterns, searchTexts) THEN GOOGLE
             ELSE GOOGLE

\* calendarMetadata?.provider
ProviderHint(metadata) == IF metadata = Absent THEN Absent ELSE metadata[1].provider

GetCalendarProviderIgnoresMetadata(calendarId, calendarName, metadata) ==
    GetCalendarProvider(calendarId, calendarName)

GetCalendarProviderFromMetadataUnguarded(calendarId, calendarName, metadata) ==
    IF metadata = Absent THEN "TypeError"
    ELSE IF Truthy(metadata[1].provider)
            /\ Includes(ToLowerCase(metadata[1].provider[1]), "outlook")
    THEN OUTLOOK
    ELSE GetCalendarProvider(calendarId, calendarName)

\* getCalendarProviderFromMetadata(calendarId, calendarName, calendarMetadata)
GetCalendarProviderFromMetadata(calendarId, calendarName, metadata) ==
    LET hint == ProviderHint(metadata)
    IN  IF Truthy(hint) /\ (\/ Includes(ToLowerCase(hint[1]), "outlook")
                            \/ Includes(ToLowerCase(hint[1]), "microsoft"))
        THEN OUTLOOK
        ELSE IF Truthy(hint) /\ Includes(ToLowerCase(hint[1]), "google") THEN GOOGLE
        ELSE GetCalendarProvider(calendarId, calendarName)

NotCalled == "not called"

\* No classifier call has been made.
NoClassification ==
    [calendarId |-> Absent, calendarName |-> Absent, metadata |-> Absent,
     byPattern |-> NotCalled, byMetadata |-> NotCalled,
     conferencePlatform |-> NotCalled, locationType |-> NotCalled]

(***************************************************************************)
(* Initial values of NewEventDialog (new-event-dialog.tsx, lines 49-102)   *)
(* and of the OAuth return handler (useOAuthHandler).                      *)
(***************************************************************************)
VideoConferencingPlatform == {"GOOGLE_MEET_AND_CALENDAR", "ZOOM_MEETING", "MICROSOFT_TEAMS"}

\* selectedLocationType null, the form's locationType undefined
NoPlatform == ""

NoCreate == [none |-> TRUE]

\* form defaultValues
FormDefaults ==
    [title |-> "", duration |-> 30, description |-> "", locationType |-> NoPlatform,
     calendar_id |-> "", calendar_name |-> ""]

DialogInit ==
    [isOpen |-> FALSE,
     selectedLocationType |-> NoPlatform,
     error |-> "",
     isChecking |-> FALSE,
     connectionStatus |-> [p \in VideoConferencingPlatform |-> "undefined"],
     selectedCalendarId |-> "",
     selectedCalendarName |-> "",
     form |-> FormDefaults,
     checking |-> <<>>,
     createStatus |-> "idle",
     creates |-> 0,
     isPending |-> FALSE,
     created |-> NoCreate,
     toast |-> ""]

NoParams ==
    [success |-> Absent, error |-> Absent, app_type |-> Absent,
     error_message |-> Absent]

OAuthIdle ==
    [params |-> NoParams, effect |-> "done", toasts |-> <<>>,
     onSuccess |-> Absent, onError |-> Absent]

\* No request made through an axios instance yet.
NoInstance == ""

NoRejection == [none |-> TRUE]

ApiIdle ==
    [instance |-> NoInstance, state |-> "idle", authorization |-> FALSE,
     error |-> NoRejection, rejection |-> NoRejection]

\* CalendarSelector before its query has data: no calendars, nothing
\* selected (useState(null)).
NoCalendar == [none |-> TRUE]

SelectorIdle ==
    [data |-> <<>>,
     options |-> [onlyActive |-> TRUE, onlyWritable |-> TRUE,
                  onlyPrimary |-> FALSE, includeInactive |-> FALSE],
     allowEmpty |-> FALSE,
     rendered |-> FALSE,
     calendars |-> <<>>,
     selectedCalendar |-> NoCalendar]

AdminIdle ==
    /\ dialog = DialogInit
    /\ oauth = OAuthIdle
    /\ classification = NoClassification
    /\ api = ApiIdle
    /\ selector = SelectorIdle

(***************************************************************************)
(* Initial state: the page is loaded and the booking state is read from    *)
(* the URL query parameters (use-booking-state.ts, lines 10-40).           *)
(***************************************************************************)
NoOrigin == [kind |-> "none"]
UrlOrigin == [kind |-> "url"]
PickOrigin(date, slot) == [kind |-> "picked", date |-> date, label |-> slot]

\* BookingCalendar's mount effect: it selects the URL's date when the state
\* holds none; nuqs has parsed the same parameter already, so this changes
\* nothing when the parameter parses.
MountEffect(stateDate, urlDate) ==
    IF stateDate = NoDate /\ urlDate # NoDate THEN urlDate ELSE stateDate

NoPayload == [none |-> TRUE]

FormIdle ==
    /\ meetLink = ""
    /\ inFlight = 0
    /\ mutationStatus = "idle"
    /\ isPending = FALSE
    /\ lastPayload = NoPayload

Url(date, slot) == [date |-> date, slot |-> slot]

PageLoaded(urls, durations, offsets, gaps) ==
    /\ \E url \in urls :
           /\ selectedDate = MountEffect(url.date, url.date)
           /\ selectedSlot = url.slot
    /\ slotOrigin = IF selectedSlot = NoSlot THEN NoOrigin ELSE UrlOrigin
    /\ next \in BOOLEAN
    /\ browserOffset \in offsets
    /\ gapHours \in gaps
    /\ timezone \in Zones
    /\ hourType \in {"12h", "24h"}
    /\ isSuccess = FALSE
    /\ cache = {}
    /\ fetching = {CurrentKey}
    /\ pendingInvalidate = 0
    /\ duration \in durations
    /\ FormIdle
    /\ page = "booking"
    /\ session \in {[user |-> b, accessToken |-> b, expiresAt |-> b] : b \in BOOLEAN}
    /\ AdminIdle

Init ==
    /\ PageLoaded({Url(d, u) : d \in FlowDates \cup {NoDate}, u \in UrlSlots},
                  {30}, {-4}, {{}})
    /\ next = FALSE
    /\ hourType = "24h"
    /\ session.user = FALSE

(***************************************************************************)
(* Booking calendar: the handlers                                          *)
(***************************************************************************)
\* After a render with a new query key the observer fetches that key
\* (staleTime 0: cached data never prevents the fetch); a key that is
\* already being fetched is not requested twice.
ObserveKey(key) == fetching' = fetching \cup {key}

HandleChangeDateKeepsSlot(newDate) ==
    /\ page = "booking"
    /\ pendingInvalidate < MaxPendingInvalidate
    /\ selectedDate' = newDate
    /\ pendingInvalidate' = pendingInvalidate + 1
    /\ ObserveKey(QueryKey(newDate, timezone, browserOffset))
    /\ UNCHANGED <<selectedSlot, slotOrigin>>
    /\ UNCHANGED <<next, timezone, hourType, isSuccess, cache>>
    /\ UNCHANGED <<formVars, appVars, envVars, adminVars>>

\* handleChangeDate(newDate): handleSelectSlot(null), handleSelectDate(newDate),
\* setTimeout(invalidateQueries, 50); then the render with the new key.
HandleChangeDate(newDate) ==
    /\ page = "booking"
    /\ pendingInvalidate < MaxPendingInvalidate
    /\ selectedSlot' = HandleSelectSlotValue(selectedDate, NoSlot, gapHours)
    /\ slotOrigin' = NoOrigin
    /\ selectedDate' = newDate
    /\ pendingInvalidate' = pendingInvalidate + 1
    /\ ObserveKey(QueryKey(newDate, timezone, browserOffset))
    /\ UNCHANGED <<next, timezone, hourType, isSuccess, cache>>
    /\ UNCHANGED <<formVars, appVars, envVars, adminVars>>

ChangeDate == \E d \in FlowDates : HandleChangeDate(d)

\* The timeout of handleChangeDate fires: invalidateQueries refetches the
\* query the mounted observer follows.
InvalidateTimeout ==
    /\ page = "booking"
    /\ pendingInvalidate > 0
    /\ pendingInvalidate' = pendingInvalidate - 1
    /\ ObserveKey(CurrentKey)
    /\ UNCHANGED <<bookingVars, cache, formVars, appVars, envVars, adminVars, slotOrigin>>

DeliverToObserverKey(key, payload) ==
    /\ key \in fetching
    /\ cache' = StoreEntry(cache, CacheEntry(CurrentKey, key, payload))
    /\ fetching' = fetching \ {key}
    /\ UNCHANGED <<bookingVars, pendingInvalidate, formVars, appVars, envVars, adminVars,
                   slotOrigin>>

\* A request resolves: react-query writes the payload to the cache entry of
\* the query that issued it, whatever key the observer follows by then.
DeliverAvailability(key, payload) ==
    /\ key \in fetching
    /\ cache' = StoreEntry(cache, CacheEntry(key, key, payload))
    /\ fetching' = fetching \ {key}
    /\ UNCHANGED <<bookingVars, pendingInvalidate, formVars, appVars, envVars, adminVars,
                   slotOrigin>>

AvailabilityResponseFrom(payloads) ==
    \E key \in fetching, payload \in payloads : DeliverAvailability(key, payload)

AvailabilityResponse == AvailabilityResponseFrom(FlowPayloads)

\* A request fails: the entry keeps what it held.
AvailabilityError ==
    \E key \in fetching :
        /\ fetching' = fetching \ {key}
        /\ UNCHANGED <<bookingVars, cache, pendingInvalidate, formVars, appVars,
                       envVars, adminVars, slotOrigin>>

\* handleSelectSlot(slot)
HandleSelectSlot(slot) ==
    /\ page = "booking"
    /\ selectedSlot' = HandleSelectSlotValue(selectedDate, slot, gapHours)
    /\ slotOrigin' = IF selectedDate = NoDate \/ slot = NoSlot THEN NoOrigin
                     ELSE PickOrigin(selectedDate, slot)
    /\ UNCHANGED <<selectedDate, next, timezone, hourType, isSuccess>>
    /\ UNCHANGED <<queryVars, formVars, appVars, envVars, adminVars>>

\* A click on one of the slot buttons the panel renders.
SelectSlot ==
    /\ selectedDate # NoDate
    /\ \E i \in 1..Len(TimeSlots) : HandleSelectSlot(TimeSlots[i])

SetTimezone ==
    \E zone \in Zones :
        /\ page = "booking"
        /\ timezone' = zone
        /\ ObserveKey(QueryKey(selectedDate, zone, browserOffset))
        /\ UNCHANGED <<selectedDate, selectedSlot, next, hourType, isSuccess>>
        /\ UNCHANGED <<cache, pendingInvalidate, formVars, appVars, envVars, adminVars,
                       slotOrigin>>

SetHourType ==
    \E h \in {"12h", "24h"} :
        /\ page = "booking"
        /\ hourType' = h
        /\ UNCHANGED <<selectedDate, selectedSlot, next, timezone, isSuccess>>
        /\ UNCHANGED <<queryVars, formVars, appVars, envVars, adminVars, slotOrigin>>

HandleNext ==
    /\ page = "booking"
    /\ next' = TRUE
    /\ UNCHANGED <<selectedDate, selectedSlot, timezone, hourType, isSuccess>>
    /\ UNCHANGED <<queryVars, formVars, appVars, envVars, adminVars, slotOrigin>>

HandleBack ==
    /\ page = "booking"
    /\ next' = FALSE
    /\ UNCHANGED <<selectedDate, selectedSlot, timezone, hourType, isSuccess>>
    /\ UNCHANGED <<queryVars, formVars, appVars, envVars, adminVars, slotOrigin>>

Next ==
    \/ ChangeDate
    \/ InvalidateTimeout
    \/ AvailabilityResponse
    \/ AvailabilityError
    \/ SelectSlot
    \/ SetTimezone
    \/ SetHourType

Spec == Init /\ [][Next]_vars


(***************************************************************************)
(* Request layer (axios-client.ts): the response-error interceptor of the  *)
(* API instance, through which scheduleMeetingMutationFn posts.            *)
(* An axios error is [hasResponse, status, data]; a body is                *)
(* [text |-> s] when it is the plain string s and [message, errorCode]     *)
(* when it is a JSON object.                                               *)
(***************************************************************************)
NetworkError == [hasResponse |-> FALSE]

HttpError(status, data) == [hasResponse |-> TRUE, status |-> status, data |-> data]

TextBody(s) == [text |-> s]

JsonBody(message, errorCode) == [message |-> message, errorCode |-> errorCode]

Undefined == "undefined"

BodyMessage(data) == IF "message" \in DOMAIN data THEN data.message ELSE Undefined

BodyErrorCode(data) ==
    IF "errorCode" \in DOMAIN data /\ data.errorCode # Undefined /\ data.errorCode # ""
    THEN data.errorCode ELSE "UNKNOWN_ERROR"

\* API.interceptors.response, error handler.  `const { data, status } =
\* error.response` throws a TypeError when the error carries no response; the
\* async handler then rejects with that TypeError.  logout: the store is
\* cleared and window.location.href = "/".
ApiResponseError(error) ==
    IF ~error.hasResponse
    THEN [logout |-> FALSE,
          rejection |-> [name |-> "TypeError", message |-> "error.response is undefined",
                         errorCode |-> Undefined]]
    ELSE [logout |-> error.data = TextBody("Unauthorized") /\ error.status = 401,
          rejection |-> [name |-> "CustomError", message |-> BodyMessage(error.data),
                         errorCode |-> BodyErrorCode(error.data)]]

ClearedSession == [user |-> FALSE, accessToken |-> FALSE, expiresAt |-> FALSE]

(***************************************************************************)
(* Booking form (booking-calendar.tsx, BookingForm)                        *)
(***************************************************************************)
NoMatch == [none |-> TRUE]

\* The pattern (\d{4})-(\d{2})-(\d{2})T(\d{2}):(\d{2}) at position i of s.
PatternAt(s, i) ==
    /\ i + 15 <= Len(s)
    /\ AllDigits(SubSeq(s, i, i + 3))
    /\ s[i + 4] = "-"
    /\ AllDigits(SubSeq(s, i + 5, i + 6))
    /\ s[i + 7] = "-"
    /\ AllDigits(SubSeq(s, i + 8, i + 9))
    /\ s[i + 10] = "T"
    /\ AllDigits(SubSeq(s, i + 11, i + 12))
    /\ s[i + 13] = ":"
    /\ AllDigits(SubSeq(s, i + 14, i + 15))

\* startTimeString.match(...): the leftmost match, its five groups.
DateMatch(s) ==
    IF \E i \in 1..Len(s) : PatternAt(s, i)
    THEN LET i == CHOOSE j \in 1..Len(s) :
                      PatternAt(s, j) /\ \A k \in 1..(j - 1) : ~PatternAt(s, k)
         IN  [year    |-> SubSeq(s, i, i + 3),
              month   |-> SubSeq(s, i + 5, i + 6),
              day     |-> SubSeq(s, i + 8, i + 9),
              hours   |-> SubSeq(s, i + 11, i + 12),
              minutes |-> SubSeq(s, i + 14, i + 15)]
    ELSE NoMatch

\* Date.prototype.toISOString() of the instant `minute` (minutes since the
\* epoch), cut after the minutes; years beyond 9999 print as +YYYYYY.
IsoString(minute) ==
    LET date == DateFromDay(minute \div 1440)
        ofDay == minute % 1440
        yearText == IF date.year > 9999 THEN <<"+">> \o PadStart(ToStr(date.year), 6)
                    ELSE PadStart(ToStr(date.year), 4)
    IN  yearText \o <<"-">> \o PadStart(ToStr(date.month), 2) \o <<"-">>
            \o PadStart(ToStr(date.day), 2) \o <<"T">>
            \o PadStart(ToStr(ofDay \div 60), 2) \o <<":">>
            \o PadStart(ToStr(ofDay % 60), 2) \o <<":", "0", "0", ".", "0", "0",
                                                    "0", "Z">>

\* Date.UTC(year, month, day, hours, minutes), in minutes since the epoch; a
\* year of 0..99 means 1900 + year.
DateUTC(year, month0, day, hours, minutes) ==
    LET y == IF year <= 99 THEN 1900 + year ELSE year
    IN  MakeDay(y, month0, day) * 1440 + hours * 60 + minutes

EndTimeStringKeepsMonth(m, dur) ==
    SubSeq(IsoString(DateUTC(ParseInt(m.year), ParseInt(m.month),
                             ParseInt(m.day), ParseInt(m.hours),
                             ParseInt(m.minutes) + dur)), 1, 16)

\* new Date(Date.UTC(year, month - 1, day, hours, minutes + duration))
\*     .toISOString().slice(0, 16)
EndTimeString(m, dur) ==
    SubSeq(IsoString(DateUTC(ParseInt(m.year), ParseInt(m.month) - 1,
                             ParseInt(m.day), ParseInt(m.hours),
                             ParseInt(m.minutes) + dur)), 1, 16)

\* The payload onSubmit hands to mutate(), or NoPayload when it returns or
\* throws before: no event id, no slot, no date, a slot that does not
\* decode or does not match, or isPending set in the render it closes over.
SubmitPayload ==
    IF EventId = "" \/ selectedSlot = NoSlot \/ selectedDate = NoDate THEN NoPayload
    ELSE LET startTimeString == DecodeURIComponent(selectedSlot)
         IN  IF startTimeString = URIError THEN NoPayload
             ELSE IF DateMatch(startTimeString) = NoMatch THEN NoPayload
             ELSE IF isPending THEN NoPayload
             ELSE [eventId   |-> EventId,
                   startTime |-> startTimeString,
                   endTime   |-> EndTimeString(DateMatch(startTimeString), duration),
                   timezone  |-> timezone]

\* A submit event with valid form values: form.handleSubmit(onSubmit).
\* mutate() makes the observer's mutation pending at once; the component
\* sees it (isPending, the disabled button) at its next render.
Submit ==
    /\ page = "booking"
    /\ ~isSuccess
    /\ SubmitPayload # NoPayload
    /\ inFlight < MaxInFlight
    /\ inFlight' = inFlight + 1
    /\ mutationStatus' = "pending"
    /\ lastPayload' = SubmitPayload
    /\ UNCHANGED <<meetLink, duration, isPending>>
    /\ UNCHANGED <<bookingVars, queryVars, appVars, envVars, adminVars, slotOrigin>>

\* BookingForm renders again with the observer's current result.
RenderForm ==
    /\ page = "booking"
    /\ isPending # (mutationStatus = "pending")
    /\ isPending' = (mutationStatus = "pending")
    /\ UNCHANGED <<meetLink, duration, inFlight, mutationStatus, lastPayload>>
    /\ UNCHANGED <<bookingVars, queryVars, appVars, envVars, adminVars, slotOrigin>>

\* Requests in flight that the observer no longer follows: a later mutate()
\* replaced them, and their mutate() callbacks do not run.
Superseded == inFlight - (IF mutationStatus = "pending" THEN 1 ELSE 0)

\* The request the observer follows succeeds: onSuccess stores the link and
\* calls handleSuccess(true), which sets isSuccess to (value || true).
BookingSucceeds ==
    \E link \in {"https://meet.example/abc"} :
        /\ page = "booking"
        /\ mutationStatus = "pending"
        /\ inFlight' = inFlight - 1
        /\ mutationStatus' = "success"
        /\ meetLink' = link
        /\ isSuccess' = TRUE
        /\ UNCHANGED <<selectedDate, selectedSlot, next, timezone, hourType>>
        /\ UNCHANGED <<duration, isPending, lastPayload>>
        /\ UNCHANGED <<queryVars, appVars, envVars, adminVars, slotOrigin>>

\* A replaced request succeeds: nothing listens.
SupersededSucceeds ==
    /\ page = "booking"
    /\ Superseded > 0
    /\ inFlight' = inFlight - 1
    /\ UNCHANGED <<meetLink, duration, mutationStatus, isPending, lastPayload>>
    /\ UNCHANGED <<bookingVars, queryVars, appVars, envVars, adminVars, slotOrigin>>

\* window.location.href = "/": the document is replaced by the entry page.
\* The booking state lived in the query string of the URL that was left.
LeaveForEntryPage ==
    /\ page' = "entry"
    /\ session' = ClearedSession
    /\ selectedDate' = NoDate
    /\ selectedSlot' = NoSlot
    /\ slotOrigin' = NoOrigin
    /\ next' = FALSE
    /\ timezone' = LocalTimeZone(browserOffset)
    /\ hourType' = "24h"
    /\ isSuccess' = FALSE
    /\ cache' = {}
    /\ fetching' = {}
    /\ pendingInvalidate' = 0
    /\ meetLink' = ""
    /\ inFlight' = 0
    /\ mutationStatus' = "idle"
    /\ isPending' = FALSE
    /\ lastPayload' = NoPayload
    /\ UNCHANGED <<duration, envVars, adminVars>>

\* A booking request fails with `error`; followed tells whether it is the
\* request the observer follows (onError then shows the toast).
BookingFails(followed, error) ==
    /\ page = "booking"
    /\ IF followed THEN mutationStatus = "pending" ELSE Superseded > 0
    /\ IF ApiResponseError(error).logout
       THEN LeaveForEntryPage
       ELSE /\ inFlight' = inFlight - 1
            /\ mutationStatus' = IF followed THEN "error" ELSE mutationStatus
            /\ UNCHANGED <<meetLink, duration, isPending, lastPayload>>
            /\ UNCHANGED <<bookingVars, queryVars, appVars, envVars, adminVars, slotOrigin>>

BookingErrors ==
    {NetworkError,
     HttpError(400, JsonBody("Slot is no longer available", "BAD_REQUEST")),
     HttpError(500, JsonBody(Undefined, Undefined)),
     HttpError(401, TextBody("Unauthorized"))}

BookingFailure ==
    \E followed \in BOOLEAN, error \in BookingErrors : BookingFails(followed, error)

(***************************************************************************)
(* The detail form: the page is on the form step (next=true in the URL)    *)
(* with a slot that handleSelectSlot encoded on an earlier step, or with   *)
(* a `slot` parameter that does not decode.                                *)
(***************************************************************************)
T0000 == <<"0", "0", ":", "0", "0">>
T2330 == <<"2", "3", ":", "3", "0">>
T2359 == <<"2", "3", ":", "5", "9">>

SubmitDates ==
    {D1, MkDate(2025, 6, 30), MkDate(2024, 12, 31), MkDate(2024, 2, 28),
     MkDate(2023, 2, 28), MkDate(2000, 2, 28), MkDate(2100, 2, 28)}

SubmitLabels == {T0000, T0900, T2330, T2359}

Durations == {1, 15, 30, 60, 1440}

SubmitUrls ==
    {Url(d, HandleSelectSlotValue(d, l, {})) : d \in SubmitDates, l \in SubmitLabels}
        \cup {Url(D1, <<"%">>)}

InitSubmit ==
    /\ PageLoaded(SubmitUrls, Durations, {-4}, {{}})
    /\ next = TRUE
    /\ hourType = "24h"
    /\ timezone = LocalTimeZone(browserOffset)

NextSubmit ==
    \/ Submit
    \/ RenderForm
    \/ BookingSucceeds
    \/ SupersededSucceeds
    \/ BookingFailure
    \/ HandleNext
    \/ HandleBack

SpecSubmit == InitSubmit /\ [][NextSubmit]_vars

(***************************************************************************)
(* Slot resolution over many availability lists: the page is loaded with   *)
(* a date, a timezone and a browser zone, and the server answers with any  *)
(* list of at most MaxDays days.                                           *)
(***************************************************************************)
MaxDays == 2

D0 == MkDate(2025, 6, 2)

SlotDays ==
    {Day(FormatYmd(D1), "TUESDAY", <<T0900, T0930>>),
     Day(FormatYmd(D2), "TUESDAY", <<T0230>>),
     Day(FormatYmd(D0), "MONDAY", <<T2330, T0000>>),
     [dateStr |-> FormatYmd(D1), day |-> "TUESDAY", hasSlots |-> FALSE,
      slots |-> <<>>]}

SeqsUpTo(S, n) == UNION {[1..k -> S] : k \in 0..n}

\* `data` without a `data` field: the body of an answer that carries none.
EmptyBody == [hasData |-> FALSE, data |-> <<>>]

SlotPayloads == {Payload(days) : days \in SeqsUpTo(SlotDays, MaxDays)} \cup {EmptyBody}

InitSlots ==
    /\ PageLoaded({Url(d, NoSlot) : d \in {D0, D1, MkDate(2025, 6, 4), NoDate}},
                  {30}, {-4, 9}, {{}})
    /\ next = FALSE
    /\ hourType = "24h"
    /\ session.user = FALSE

SlotsResponse == AvailabilityResponseFrom(SlotPayloads)

NextSlots ==
    \/ SlotsResponse
    \/ AvailabilityError
    \/ SelectSlot

SpecSlots == InitSlots /\ [][NextSlots]_vars

(***************************************************************************)
(* Slot display (decodeSlot and formatSlot of @/lib/helper), after the     *)
(* slot codec's contract: percent-decode, read the wall-clock hour and     *)
(* minute, render them in the hour format; the timezone is a label only.   *)
(***************************************************************************)
NoDisplay == <<>>

DisplayTime(hours, minuteText, hType) ==
    IF hType = "12h"
    THEN ToStr(IF hours % 12 = 0 THEN 12 ELSE hours % 12) \o <<":">> \o minuteText
             \o <<" ">> \o (IF hours < 12 THEN <<"A", "M">> ELSE <<"P", "M">>)
    ELSE PadStart(ToStr(hours), 2) \o <<":">> \o minuteText

\* decodeSlot(selectedSlot, timezone, hourType)
DecodeSlot(slot, zone, hType) ==
    IF slot = NoSlot THEN NoDisplay
    ELSE LET text == DecodeURIComponent(slot)
         IN  IF text = URIError \/ DateMatch(text) = NoMatch THEN NoDisplay
             ELSE DisplayTime(ParseInt(DateMatch(text).hours),
                              DateMatch(text).minutes, hType)

\* formatSlot(slot, timezone, hourType): the label of a slot button
FormatSlot(label, zone, hType) ==
    DisplayTime(ParseInt(SubSeq(label, 1, 2)), SubSeq(label, 4, 5), hType)

(***************************************************************************)
(* The slot codec over many inputs: any date or none, any label or none,   *)
(* on an ordinary day and on a day the browser's zone springs forward.     *)
(***************************************************************************)
T1430 == <<"1", "4", ":", "3", "0">>

CodecLabels == {T0000, T0230, T0900, T1430, T2359}

CodecDates == {D1, MkDate(2024, 2, 29), MkDate(2025, 12, 31), NoDate}

InitCodec ==
    /\ PageLoaded({Url(d, NoSlot) : d \in CodecDates}, {30}, {-4}, {{}, {2}})
    /\ next = FALSE
    /\ session.user = FALSE

\* handleSelectSlot called with any label, or with null.
CallSelectSlot == \E slot \in CodecLabels \cup {NoSlot} : HandleSelectSlot(slot)

NextCodec ==
    \/ CallSelectSlot
    \/ SetHourType
    \/ SetTimezone

SpecCodec == InitCodec /\ [][NextCodec]_vars

(***************************************************************************)
(* The booking state store by itself (use-booking-state.ts): every         *)
(* handler the hook returns, called in any order with any argument.        *)
(***************************************************************************)
HandleSelectDateClearsSlot(date) ==
    /\ page = "booking"
    /\ selectedDate' = date
    /\ selectedSlot' = NoSlot
    /\ slotOrigin' = NoOrigin
    /\ ObserveKey(QueryKey(date, timezone, browserOffset))
    /\ UNCHANGED <<next, timezone, hourType, isSuccess>>
    /\ UNCHANGED <<cache, pendingInvalidate, formVars, appVars, envVars, adminVars>>

\* handleSelectDate(date): setSelectedDate(date); the render that follows
\* observes the query key of the new date.
HandleSelectDate(date) ==
    /\ page = "booking"
    /\ selectedDate' = date
    /\ ObserveKey(QueryKey(date, timezone, browserOffset))
    /\ UNCHANGED <<selectedSlot, next, timezone, hourType, isSuccess>>
    /\ UNCHANGED <<cache, pendingInvalidate, formVars, appVars, envVars, adminVars, slotOrigin>>

\* value || true
OrTrue(value) == IF value THEN value ELSE TRUE

HandleSuccessKeepsValue(value) ==
    /\ page = "booking"
    /\ isSuccess' = value
    /\ UNCHANGED <<selectedDate, selectedSlot, next, timezone, hourType>>
    /\ UNCHANGED <<queryVars, formVars, appVars, envVars, adminVars, slotOrigin>>

\* handleSuccess(value): setIsSuccess(value || true)
HandleSuccess(value) ==
    /\ page = "booking"
    /\ isSuccess' = OrTrue(value)
    /\ UNCHANGED <<selectedDate, selectedSlot, next, timezone, hourType>>
    /\ UNCHANGED <<queryVars, formVars, appVars, envVars, adminVars, slotOrigin>>

StoreLabels == {T0900, T1430}

InitStore ==
    /\ PageLoaded({Url(d, NoSlot) : d \in FlowDates \cup {NoDate}}, {30}, {-4}, {{}})
    /\ next = FALSE
    /\ hourType = "24h"
    /\ timezone = LocalTimeZone(browserOffset)
    /\ session.user = FALSE

CallSelectDate == \E d \in FlowDates : HandleSelectDate(d)

CallSelectLabel == \E slot \in StoreLabels \cup {NoSlot} : HandleSelectSlot(slot)

CallSuccess == \E value \in BOOLEAN : HandleSuccess(value)

NextStore ==
    \/ CallSelectDate
    \/ CallSelectLabel
    \/ CallSuccess
    \/ HandleNext
    \/ HandleBack
    \/ SetHourType

SpecStore == InitStore /\ [][NextStore]_vars

(***************************************************************************)
(* The pages of the signed-in user: the public booking page is not         *)
(* mounted, its state holds the defaults.                                  *)
(***************************************************************************)
BookingUnmounted ==
    /\ selectedDate = NoDate
    /\ selectedSlot = NoSlot
    /\ slotOrigin = NoOrigin
    /\ next = FALSE
    /\ browserOffset = -4
    /\ gapHours = {}
    /\ timezone = LocalTimeZone(browserOffset)
    /\ hourType = "24h"
    /\ isSuccess = FALSE
    /\ cache = {}
    /\ fetching = {}
    /\ pendingInvalidate = 0
    /\ duration = 30
    /\ FormIdle
    /\ page = "app"
    /\ session = [user |-> TRUE, accessToken |-> TRUE, expiresAt |-> TRUE]

bookingPageVars ==
    <<bookingVars, queryVars, formVars, appVars, envVars, slotOrigin>>

(***************************************************************************)
(* The classifier over many inputs: identifier, name and metadata each     *)
(* absent, empty or present.                                               *)
(***************************************************************************)
ClassifierIds ==
    {Absent, Some(""), Some("primary"), Some("AQMkADAwATM0"), Some("aamkad77"),
     Some("MQMkADx"), Some("OGMkAD9"), Some("team@group.calendar.google.com"),
     Some("work@outlook.com"), Some("c_18f3")}

ClassifierNames ==
    {Absent, Some(""), Some("Team Google"), Some("me@gmail.com"),
     Some("Microsoft rollout"), Some("Outlook work"), Some("Holidays")}

Metadata(provider) == Some([provider |-> provider])

ClassifierMetadata ==
    {Absent, Metadata(Absent), Metadata(Some("")), Metadata(Some("Outlook")),
     Metadata(Some("MICROSOFT Graph")), Metadata(Some("google")),
     Metadata(Some("Google via Outlook")), Metadata(Some("caldav"))}

InitClassifier ==
    /\ BookingUnmounted
    /\ dialog = DialogInit
    /\ oauth = OAuthIdle
    /\ api = ApiIdle
    /\ selector = SelectorIdle
    /\ \E id \in ClassifierIds, name \in ClassifierNames, metadata \in ClassifierMetadata :
           classification = [NoClassification EXCEPT !.calendarId = id,
                                                     !.calendarName = name,
                                                     !.metadata = metadata]

CallGetCalendarProvider ==
    /\ classification.byPattern = NotCalled
    /\ classification' =
           [classification EXCEPT !.byPattern =
                GetCalendarProvider(classification.calendarId,
                                    classification.calendarName)]
    /\ UNCHANGED <<bookingPageVars, dialog, oauth, serviceVars>>

CallGetCalendarProviderFromMetadata ==
    /\ classification.byMetadata = NotCalled
    /\ classification' =
           [classification EXCEPT !.byMetadata =
                GetCalendarProviderFromMetadata(classification.calendarId,
                                                classification.calendarName,
                                                classification.metadata)]
    /\ UNCHANGED <<bookingPageVars, dialog, oauth, serviceVars>>

(***************************************************************************)
(* NewEventDialog (new-event-dialog.tsx): the dialog in which the signed-in *)
(* user creates an event type.                                             *)
(***************************************************************************)
Throws == "throws"

\* eventSchema through zodResolver: formState.isValid after the validation
\* that follows every change of a validated field, form.trigger and
\* form.reset.
IsValid(d) ==
    /\ d.form.title # ""
    /\ d.form.duration >= 1
    /\ d.form.locationType \in VideoConferencingPlatform

IsPlatformConnected(d, platform) == d.connectionStatus[platform] = "true"

IsValidCombination(d) ==
    IF d.selectedLocationType = NoPlatform
    THEN FALSE
    ELSE IsPlatformConnected(d, d.selectedLocationType)

GetConferencePlatform(uiSelection) ==
    CASE uiSelection = "GOOGLE_MEET_AND_CALENDAR" -> "GOOGLE_MEET"
      [] uiSelection = "ZOOM_MEETING" -> "ZOOM"
      [] uiSelection = "MICROSOFT_TEAMS" -> "MICROSOFT_TEAMS"
      [] OTHER -> Throws

IsCombinationSupported(conferencePlatform, calendarProvider) ==
    CASE conferencePlatform = "GOOGLE_MEET" -> calendarProvider = GOOGLE
      [] conferencePlatform = "ZOOM" -> TRUE
      [] conferencePlatform = "MICROSOFT_TEAMS" -> calendarProvider = OUTLOOK
      [] OTHER -> FALSE

\* The Create button is rendered enabled:
\* disabled={!isValid || isPending || !isValidCombination()}.
CreateEnabledIfSupported(d) ==
    /\ IsValid(d)
    /\ ~d.isPending
    /\ IsValidCombination(d)
    /\ IsCombinationSupported(GetConferencePlatform(d.selectedLocationType),
                              GetCalendarProvider(Some(d.selectedCalendarId),
                                                  Some(d.selectedCalendarName)))

CreateEnabled(d) ==
    /\ IsValid(d)
    /\ ~d.isPending
    /\ IsValidCombination(d)

\* buildLocationTypeFromSelection, the branches on the platform once the
\* provider of the calendar is known.
LocationTypeOfZoomAlwaysGoogle(conferencePlatform, calendarProvider) ==
    CASE conferencePlatform = "GOOGLE_MEET" -> "GOOGLE_MEET_AND_CALENDAR"
      [] conferencePlatform = "ZOOM" -> "GOOGLE_WITH_ZOOM"
      [] conferencePlatform = "MICROSOFT_TEAMS" -> "OUTLOOK_WITH_TEAMS"
      [] OTHER -> Throws

LocationTypeOf(conferencePlatform, calendarProvider) ==
    CASE conferencePlatform = "GOOGLE_MEET" -> "GOOGLE_MEET_AND_CALENDAR"
      [] conferencePlatform = "ZOOM" ->
            IF calendarProvider = OUTLOOK THEN "OUTLOOK_WITH_ZOOM"
                                          ELSE "GOOGLE_WITH_ZOOM"
      [] conferencePlatform = "MICROSOFT_TEAMS" ->
            IF calendarProvider = OUTLOOK THEN "OUTLOOK_WITH_TEAMS"
                                          ELSE "OUTLOOK_WITH_TEAMS"
      [] OTHER -> Throws

BuildLocationTypeFromSelection(conferencePlatform, calendarId, calendarName) ==
    LocationTypeOf(conferencePlatform, GetCalendarProvider(calendarId, calendarName))

\* `text || undefined`
OrUndefined(text) == IF text = "" THEN Absent ELSE Some(text)

\* onSubmit, lines 262-283: the data handed to mutate, or Throws when the
\* preparation throws.
SubmitData(data) ==
    LET conferencePlatform == GetConferencePlatform(data.locationType)
        specificLocationType ==
            IF conferencePlatform = Throws
            THEN Throws
            ELSE BuildLocationTypeFromSelection(conferencePlatform,
                     Some(data.calendar_id), Some(data.calendar_name))
    IN  IF specificLocationType = Throws
        THEN [none |-> TRUE, thrown |-> TRUE]
        ELSE [title |-> data.title,
              duration |-> data.duration,
              description |-> data.description,
              locationType |-> specificLocationType,
              calendar_id |-> OrUndefined(data.calendar_id),
              calendar_name |-> OrUndefined(data.calendar_name)]

DialogShown == page = "app" /\ dialog.isOpen

DialogStep(d) ==
    /\ dialog' = d
    /\ UNCHANGED <<bookingPageVars, oauth, classification, serviceVars>>

\* <Dialog open={isOpen} onOpenChange={setIsOpen}>
OpenChange(open) ==
    /\ page = "app"
    /\ dialog.isOpen # open
    /\ DialogStep([dialog EXCEPT !.isOpen = open])

\* The title input of the form.
TypeTitle(text) ==
    /\ DialogShown
    /\ dialog.form.title # text
    /\ DialogStep([dialog EXCEPT !.form.title = text])

\* The requests of checkIntegrationQueryFn the model follows at once.
MaxChecks == 2

\* The handler up to its first await, whatever the state of the buttons.
HandleLocationTypeChangeWhileChecking(value) ==
    /\ DialogShown
    /\ IF dialog.connectionStatus[value] = "true"
       THEN DialogStep([dialog EXCEPT !.selectedLocationType = value,
                                      !.error = "",
                                      !.form.locationType = value])
       ELSE /\ Len(dialog.checking) < MaxChecks
            /\ DialogStep([dialog EXCEPT !.selectedLocationType = value,
                                          !.error = "",
                                          !.isChecking = TRUE,
                                          !.checking = Append(@, value)])

\* The handler asking the server at every click.
HandleLocationTypeChangeAlwaysChecks(value) ==
    /\ DialogShown
    /\ ~dialog.isChecking
    /\ Len(dialog.checking) < MaxChecks
    /\ DialogStep([dialog EXCEPT !.selectedLocationType = value,
                                  !.error = "",
                                  !.isChecking = TRUE,
                                  !.checking = Append(@, value)])

\* The handler leaving the form alone for a platform known as connected.
HandleLocationTypeChangeKeepsForm(value) ==
    /\ DialogShown
    /\ ~dialog.isChecking
    /\ IF dialog.connectionStatus[value] = "true"
       THEN DialogStep([dialog EXCEPT !.selectedLocationType = value,
                                      !.error = ""])
       ELSE /\ Len(dialog.checking) < MaxChecks
            /\ DialogStep([dialog EXCEPT !.selectedLocationType = value,
                                          !.error = "",
                                          !.isChecking = TRUE,
                                          !.checking = Append(@, value)])

\* A platform button is clicked (disabled={isChecking}): the handler up to
\* its first await.
HandleLocationTypeChange(value) ==
    /\ DialogShown
    /\ ~dialog.isChecking
    /\ IF dialog.connectionStatus[value] = "true"
       THEN DialogStep([dialog EXCEPT !.selectedLocationType = value,
                                      !.error = "",
                                      !.form.locationType = value])
       ELSE /\ Len(dialog.checking) < MaxChecks
            /\ DialogStep([dialog EXCEPT !.selectedLocationType = value,
                                          !.error = "",
                                          !.isChecking = TRUE,
                                          !.checking = Append(@, value)])

\* The requests in flight without the i-th.
Without(requests, i) ==
    SubSeq(requests, 1, i - 1) \o SubSeq(requests, i + 1, Len(requests))

\* window.location.href = "/" from the response interceptor: the document
\* with the dialog is replaced by the entry page.
DialogLeavesForEntryPage ==
    /\ page' = "entry"
    /\ session' = ClearedSession
    /\ dialog' = DialogInit
    /\ UNCHANGED <<bookingVars, queryVars, formVars, envVars, slotOrigin,
                   oauth, classification, serviceVars>>

\* The continuation setting the form's platform whatever the answer.
CheckResolvesSetsForm(i, isConnected) ==
    /\ page = "app"
    /\ i \in 1..Len(dialog.checking)
    /\ LET value == dialog.checking[i]
       IN  IF isConnected
           THEN DialogStep([dialog EXCEPT !.connectionStatus[value] = "true",
                                          !.form.locationType = value,
                                          !.isChecking = FALSE,
                                          !.checking = Without(@, i)])
           ELSE DialogStep([dialog EXCEPT !.error = "not connected",
                                          !.connectionStatus[value] = "false",
                                          !.form.locationType = value,
                                          !.isChecking = FALSE,
                                          !.checking = Without(@, i)])

\* checkIntegrationQueryFn answers { isConnected } to the i-th request in
\* flight, made for platform value.
CheckResolves(i, isConnected) ==
    /\ page = "app"
    /\ i \in 1..Len(dialog.checking)
    /\ LET value == dialog.checking[i]
       IN  IF isConnected
           THEN DialogStep([dialog EXCEPT !.connectionStatus[value] = "true",
                                          !.form.locationType = value,
                                          !.isChecking = FALSE,
                                          !.checking = Without(@, i)])
           ELSE DialogStep([dialog EXCEPT !.error = "not connected",
                                          !.connectionStatus[value] = "false",
                                          !.isChecking = FALSE,
                                          !.checking = Without(@, i)])

\* The catch block without the finally block.
CheckRejectsKeepsChecking(i, error) ==
    /\ page = "app"
    /\ i \in 1..Len(dialog.checking)
    /\ LET value == dialog.checking[i]
       IN  IF ApiResponseError(error).logout
           THEN DialogLeavesForEntryPage
           ELSE DialogStep([dialog EXCEPT !.error = "check failed",
                                          !.connectionStatus[value] = "false",
                                          !.checking = Without(@, i)])

\* checkIntegrationQueryFn rejects the i-th request in flight.
CheckRejects(i, error) ==
    /\ page = "app"
    /\ i \in 1..Len(dialog.checking)
    /\ LET value == dialog.checking[i]
       IN  IF ApiResponseError(error).logout
           THEN DialogLeavesForEntryPage
           ELSE DialogStep([dialog EXCEPT !.error = "check failed",
                                          !.connectionStatus[value] = "false",
                                          !.isChecking = FALSE,
                                          !.checking = Without(@, i)])

HandleCalendarChange(calendarId, calendarName) ==
    /\ DialogShown
    /\ DialogStep([dialog EXCEPT !.selectedCalendarId = calendarId,
                                 !.selectedCalendarName = calendarName,
                                 !.form.calendar_id = calendarId,
                                 !.form.calendar_name = calendarName])

\* The Create button is pressed: form.handleSubmit(onSubmit) with the valid
\* form data.
OnSubmit ==
    /\ DialogShown
    /\ CreateEnabled(dialog)
    /\ dialog.creates < MaxInFlight
    /\ LET submitData == SubmitData(dialog.form)
       IN  IF "thrown" \in DOMAIN submitData
           THEN DialogStep([dialog EXCEPT !.toast = "Error preparing event data"])
           ELSE DialogStep([dialog EXCEPT
                    !.createStatus = "pending",
                    !.creates = @ + 1,
                    !.created = [uiSelection |-> dialog.form.locationType,
                                 calendarId |-> dialog.form.calendar_id,
                                 calendarName |-> dialog.form.calendar_name,
                                 submitData |-> submitData]])

\* The component renders with the mutation's current isPending.
RenderDialog ==
    /\ page = "app"
    /\ dialog.isPending # (dialog.createStatus = "pending")
    /\ DialogStep([dialog EXCEPT !.isPending = (dialog.createStatus = "pending")])

\* Requests that mutate() no longer follows.
SupersededCreates ==
    dialog.creates - (IF dialog.createStatus = "pending" THEN 1 ELSE 0)

\* POST /event/create answers; mutate's onSuccess runs for the followed
\* request only.
CreateSucceeds(followed) ==
    /\ page = "app"
    /\ IF followed THEN dialog.createStatus = "pending" ELSE SupersededCreates > 0
    /\ IF followed
       THEN DialogStep([dialog EXCEPT !.creates = @ - 1,
                                      !.createStatus = "success",
                                      !.selectedCalendarId = "",
                                      !.selectedCalendarName = "",
                                      !.selectedLocationType = NoPlatform,
                                      !.connectionStatus = DialogInit.connectionStatus,
                                      !.error = "",
                                      !.isOpen = FALSE,
                                      !.form = FormDefaults,
                                      !.toast = "Event created successfully"])
       ELSE DialogStep([dialog EXCEPT !.creates = @ - 1])

CreateFails(followed, error) ==
    /\ page = "app"
    /\ IF followed THEN dialog.createStatus = "pending" ELSE SupersededCreates > 0
    /\ IF ApiResponseError(error).logout
       THEN DialogLeavesForEntryPage
       ELSE IF followed
            THEN DialogStep([dialog EXCEPT !.creates = @ - 1,
                                           !.createStatus = "error",
                                           !.toast = "Failed to create event"])
            ELSE DialogStep([dialog EXCEPT !.creates = @ - 1])

DialogTitles == {"", "Intro call"}

\* The calendars the selector offers; the empty pair is "no calendar".
DialogCalendars ==
    {<<"", "">>, <<"primary", "Work">>,
     <<"team@group.calendar.google.com", "Microsoft rollout">>,
     <<"AQMkADAwATM0", "Calendar">>}

DialogErrors == {NetworkError, HttpError(401, TextBody("Unauthorized"))}

InitDialog ==
    /\ BookingUnmounted
    /\ AdminIdle

ChangeOpen == \E open \in BOOLEAN : OpenChange(open)

ChangeTitle == \E text \in DialogTitles : TypeTitle(text)

ChangeLocationType == \E value \in VideoConferencingPlatform : HandleLocationTypeChange(value)

CheckAnswered ==
    \E i \in 1..MaxChecks, isConnected \in BOOLEAN : CheckResolves(i, isConnected)

CheckFailed ==
    \E i \in 1..MaxChecks, error \in DialogErrors : CheckRejects(i, error)

ChangeCalendar == \E calendar \in DialogCalendars : HandleCalendarChange(calendar[1], calendar[2])

CreateAnswered == \E followed \in BOOLEAN : CreateSucceeds(followed)

CreateFailed == \E followed \in BOOLEAN, error \in DialogErrors : CreateFails(followed, error)

NextDialog ==
    \/ ChangeOpen
    \/ ChangeTitle
    \/ ChangeLocationType
    \/ CheckAnswered
    \/ CheckFailed
    \/ ChangeCalendar
    \/ OnSubmit
    \/ RenderDialog
    \/ CreateAnswered
    \/ CreateFailed

SpecDialog == InitDialog /\ [][NextDialog]_vars

\* Every request of checkIntegrationQueryFn is answered or fails in the end
\* (the axios instance gives up after its timeout of 10 s).
SpecDialogLive == SpecDialog /\ WF_vars(CheckAnswered \/ CheckFailed)

(***************************************************************************)
(* The classifier and the location-type table over many inputs.            *)
(***************************************************************************)
ConferencePlatform == {"GOOGLE_MEET", "ZOOM", "MICROSOFT_TEAMS"}

CallBuildLocationTypeFromSelection ==
    /\ classification.locationType = NotCalled
    /\ \E conferencePlatform \in ConferencePlatform :
           classification' =
               [classification EXCEPT
                    !.conferencePlatform = conferencePlatform,
                    !.locationType =
                        BuildLocationTypeFromSelection(conferencePlatform,
                            classification.calendarId, classification.calendarName)]
    /\ UNCHANGED <<bookingPageVars, dialog, oauth, serviceVars>>

NextClassifier ==
    \/ CallGetCalendarProvider
    \/ CallGetCalendarProviderFromMetadata
    \/ CallBuildLocationTypeFromSelection

SpecClassifier == InitClassifier /\ [][NextClassifier]_vars

(***************************************************************************)
(* useOAuthHandler: the effect that handles the return from an OAuth       *)
(* provider, which redirects to the integrations page with query           *)
(* parameters.                                                             *)
(***************************************************************************)
OAUTH_SUCCESS_MESSAGES(key) ==
    CASE key = "microsoft_connected" -> Some("Outlook Calendar connected successfully!")
      [] key = "google_connected" -> Some("Google Calendar connected successfully!")
      [] key = "zoom_connected" -> Some("Zoom connected successfully!")
      [] OTHER -> Absent

OAUTH_ERROR_MESSAGES(key) ==
    CASE key = "microsoft_error" -> Some("Failed to connect Outlook Calendar. Please try again.")
      [] key = "google_error" -> Some("Failed to connect Google Calendar. Please try again.")
      [] key = "zoom_error" -> Some("Failed to connect Zoom. Please try again.")
      [] OTHER -> Absent

\* a || b on optional texts
OrElse(a, b) == IF Truthy(a) THEN a ELSE b

\* searchParams.delete(name) for each name in names
Delete(params, names) ==
    [name \in DOMAIN params |-> IF name \in names THEN Absent ELSE params[name]]

\* The success branch of the effect, lines 37-58.
HandleOAuthSuccess(o, success, appType) ==
    IF Truthy(success) /\ Truthy(appType)
    THEN [o EXCEPT
             !.toasts = Append(@, OrElse(OAUTH_SUCCESS_MESSAGES(success[1]),
                                         Some("Integration connected successfully!"))[1]),
             !.onSuccess = appType,
             !.params = Delete(@, {"success", "app_type"})]
    ELSE o

\* The error branch of the effect, lines 60-84.
HandleOAuthError(o, error, appType, errorMessage) ==
    IF Truthy(error) /\ Truthy(appType)
    THEN [o EXCEPT
             !.toasts = Append(@, OrElse(OAUTH_ERROR_MESSAGES(error[1]),
                                  OrElse(errorMessage,
                                         Some("Failed to connect integration. Please try again.")))[1]),
             !.onError = Some(<<appType[1], OrElse(errorMessage, error)[1]>>),
             !.params = Delete(@, {"error", "app_type", "error_message"})]
    ELSE o

\* One run of the effect: the four parameters are read first, then the two
\* branches run in turn on what was read.
OAuthEffect(o) ==
    LET success == o.params.success
        error == o.params.error
        appType == o.params.app_type
        errorMessage == o.params.error_message
    IN  HandleOAuthError(HandleOAuthSuccess(o, success, appType),
                         error, appType, errorMessage)

IsHandlingOAuth(o) == Truthy(o.params.success) \/ Truthy(o.params.error)

OAuthStep(o) ==
    /\ oauth' = o
    /\ UNCHANGED <<bookingPageVars, dialog, classification, serviceVars>>

\* The provider's redirect arrives at the page with `params` in the URL;
\* the hook mounts and its effect is due.
OAuthReturn(params) ==
    /\ page = "app"
    /\ oauth = OAuthIdle
    /\ OAuthStep([OAuthIdle EXCEPT !.params = params, !.effect = "pending"])

\* The effect runs.  setSearchParams gives the hook a new searchParams, so
\* the effect is due again after a run that handled something.
RunOAuthEffect ==
    /\ page = "app"
    /\ oauth.effect = "pending"
    /\ LET o == OAuthEffect(oauth)
       IN  OAuthStep([o EXCEPT !.effect = IF o.params # oauth.params
                                          THEN "pending" ELSE "done"])

\* The user leaves the page with a link of the application.
OAuthLeave ==
    /\ page = "app"
    /\ oauth.effect = "done"
    /\ oauth # OAuthIdle
    /\ OAuthStep(OAuthIdle)

OAuthSuccessValues == {Absent, Some(""), Some("google_connected"), Some("connected")}

OAuthErrorValues == {Absent, Some(""), Some("google_error"), Some("access_denied")}

OAuthAppTypes == {Absent, Some(""), Some("GOOGLE_MEET_AND_CALENDAR")}

OAuthErrorMessages == {Absent, Some(""), Some("The user denied access")}

OAuthArrivals ==
    [success : OAuthSuccessValues, error : OAuthErrorValues,
     app_type : OAuthAppTypes, error_message : OAuthErrorMessages]

InitOAuth ==
    /\ BookingUnmounted
    /\ AdminIdle

OAuthArrives == \E params \in OAuthArrivals : OAuthReturn(params)

NextOAuth ==
    \/ OAuthArrives
    \/ RunOAuthEffect
    \/ OAuthLeave

SpecOAuth == InitOAuth /\ [][NextOAuth]_vars

\* React runs an effect that is due.
SpecOAuthLive == SpecOAuth /\ WF_vars(RunOAuthEffect)

(***************************************************************************)
(* The two axios instances (axios-client.ts): a request is sent through    *)
(* API or PublicAPI and is answered, or fails with or without a response.  *)
(***************************************************************************)
\* PublicAPI.interceptors.response, error handler: as the handler of API
\* without the 401 branch.
PublicApiResponseError(error) ==
    IF ~error.hasResponse
    THEN [logout |-> FALSE,
          rejection |-> [name |-> "TypeError", message |-> "error.response is undefined",
                         errorCode |-> Undefined]]
    ELSE [logout |-> FALSE,
          rejection |-> [name |-> "CustomError", message |-> BodyMessage(error.data),
                         errorCode |-> BodyErrorCode(error.data)]]

ResponseError(instance, error) ==
    IF instance = "API" THEN ApiResponseError(error) ELSE PublicApiResponseError(error)

ApiStep(a) ==
    /\ api' = a
    /\ UNCHANGED <<bookingVars, queryVars, formVars, envVars, slotOrigin,
                   dialog, oauth, classification, selector>>

\* A request is sent; the request interceptor of API adds the Authorization
\* header when the store holds an access token.
ApiRequest(instance) ==
    /\ api.state = "idle"
    /\ ApiStep([ApiIdle EXCEPT !.instance = instance,
                               !.state = "pending",
                               !.authorization = (instance = "API" /\ session.accessToken)])
    /\ UNCHANGED appVars

\* The response interceptor's success handler returns the response.
ApiFulfilled ==
    /\ api.state = "pending"
    /\ ApiStep([api EXCEPT !.state = "fulfilled"])
    /\ UNCHANGED appVars

\* The response interceptor's error handler runs on `error`.
ApiRejected(error) ==
    /\ api.state = "pending"
    /\ LET handled == ResponseError(api.instance, error)
       IN  /\ ApiStep([api EXCEPT !.state = "rejected",
                                  !.error = error,
                                  !.rejection = handled.rejection])
           /\ IF handled.logout
              THEN page' = "entry" /\ session' = ClearedSession
              ELSE UNCHANGED appVars

\* The caller has taken the outcome.  After a logout the entry page is
\* shown, whose requests (the sign-in) go through API without a token.
ApiSettled ==
    /\ api.state \in {"fulfilled", "rejected"}
    /\ ApiStep(ApiIdle)
    /\ UNCHANGED appVars

Instances == {"API", "PublicAPI"}

ErrorStatuses == {400, 401, 403, 404, 500}

ErrorBodies ==
    {TextBody("Unauthorized"), TextBody(""),
     JsonBody("Unauthorized", "ACCESS_UNAUTHORIZED"),
     JsonBody("Invalid email or password", Undefined),
     JsonBody(Undefined, "")}

\* Failures: no response at all (network down, timeout of 10 s), or a
\* response with an error status.
ApiErrors ==
    {NetworkError} \cup {HttpError(status, data) : status \in ErrorStatuses, data \in ErrorBodies}

InitApi ==
    /\ BookingUnmounted
    /\ AdminIdle

ApiSends == \E instance \in Instances : ApiRequest(instance)

ApiFails == \E error \in ApiErrors : ApiRejected(error)

NextApi ==
    \/ ApiSends
    \/ ApiFulfilled
    \/ ApiFails
    \/ ApiSettled

SpecApi == InitApi /\ [][NextApi]_vars

(***************************************************************************)
(* Calendar lists (part_000) and the CalendarSelector component (part_002).*)
(***************************************************************************)
IsActive(cal) == cal.isActive

IsWritable(cal) == cal.isWritable

IsPrimary(cal) == cal.isPrimary

FilterCalendarsAnyAccess(calendars, options) ==
    LET active == IF options.onlyActive THEN SelectSeq(calendars, IsActive) ELSE calendars
        primary == IF options.onlyPrimary THEN SelectSeq(active, IsPrimary) ELSE active
    IN  IF ~options.includeInactive THEN SelectSeq(primary, IsActive) ELSE primary

FilterCalendars(calendars, options) ==
    LET active == IF options.onlyActive THEN SelectSeq(calendars, IsActive) ELSE calendars
        writable == IF options.onlyWritable THEN SelectSeq(active, IsWritable) ELSE active
        primary == IF options.onlyPrimary THEN SelectSeq(writable, IsPrimary) ELSE writable
    IN  IF ~options.includeInactive THEN SelectSeq(primary, IsActive) ELSE primary

\* calendars.find(test) is the first element that passes the test.
GetDefaultCalendar(calendars) ==
    LET primary == SelectSeq(calendars, IsPrimary)
        writable == SelectSeq(calendars, IsWritable)
    IN  IF primary # <<>> THEN Head(primary)
        ELSE IF writable # <<>> THEN Head(writable)
        ELSE IF calendars = <<>> THEN NoCalendar ELSE Head(calendars)

\* The selector computes isWritable of each fetched calendar from its
\* accessRole before filtering (part_002, lines 108-112).
WithAccess(cal) ==
    [cal EXCEPT !.isWritable = (cal.accessRole = "owner" \/ cal.accessRole = "writer")]

OfferedCalendars(s) ==
    FilterCalendars([i \in 1..Len(s.data) |-> WithAccess(s.data[i])], s.options)

SelectorStep(s) ==
    /\ selector' = s
    /\ UNCHANGED <<bookingPageVars, dialog, oauth, classification, api>>

\* The component renders with the data of its query.
RenderCalendars ==
    /\ ~selector.rendered
    /\ SelectorStep([selector EXCEPT !.rendered = TRUE,
                                     !.calendars = OfferedCalendars(selector)])

\* The effect that selects the default calendar when nothing is selected
\* and the empty choice is not allowed.
SelectDefaultCalendar ==
    /\ selector.rendered
    /\ selector.selectedCalendar = NoCalendar
    /\ ~selector.allowEmpty
    /\ Len(selector.calendars) > 0
    /\ SelectorStep([selector EXCEPT
                         !.selectedCalendar = GetDefaultCalendar(selector.calendars)])

\* An option of the list is clicked.
HandleSelectCalendar(i) ==
    /\ selector.rendered
    /\ i \in 1..Len(selector.calendars)
    /\ SelectorStep([selector EXCEPT !.selectedCalendar = selector.calendars[i]])

\* The empty option, rendered when allowEmpty, is clicked.
HandleSelectNoCalendar ==
    /\ selector.rendered
    /\ selector.allowEmpty
    /\ selector.selectedCalendar # NoCalendar
    /\ SelectorStep([selector EXCEPT !.selectedCalendar = NoCalendar])

MaxCalendars == 2

AccessRoles == {"owner", "writer", "reader"}

CalendarShapes ==
    [isPrimary : BOOLEAN, accessRole : AccessRoles, isActive : BOOLEAN, isWritable : BOOLEAN]

\* The lists a response can hold: each calendar gets its position as id.
CalendarLists ==
    UNION {{[i \in 1..n |-> [id |-> i,
                              isPrimary |-> shapes[i].isPrimary,
                              accessRole |-> shapes[i].accessRole,
                              isActive |-> shapes[i].isActive,
                              isWritable |-> shapes[i].isWritable]] :
               shapes \in [1..n -> CalendarShapes]} : n \in 0..MaxCalendars}

CalendarQueryOptions ==
    [onlyActive : BOOLEAN, onlyWritable : BOOLEAN,
     onlyPrimary : BOOLEAN, includeInactive : BOOLEAN]

InitSelector ==
    /\ BookingUnmounted
    /\ dialog = DialogInit
    /\ oauth = OAuthIdle
    /\ classification = NoClassification
    /\ api = ApiIdle
    /\ \E data \in CalendarLists, options \in CalendarQueryOptions, allowEmpty \in BOOLEAN :
           selector = [SelectorIdle EXCEPT !.data = data, !.options = options,
                                           !.allowEmpty = allowEmpty]

SelectCalendar == \E i \in 1..MaxCalendars : HandleSelectCalendar(i)

NextSelector ==
    \/ RenderCalendars
    \/ SelectDefaultCalendar
    \/ SelectCalendar
    \/ HandleSelectNoCalendar

SpecSelector == InitSelector /\ [][NextSelector]_vars

(***************************************************************************)
(* The slot text 'YYYY-MM-DDTHH:MM' built from the date and from the       *)
(* characters of the slot label as they stand, percent-encoded: what the   *)
(* claims about the slot codec compare selectedSlot with.                  *)
(***************************************************************************)
VerbatimSlot(date, label) ==
    EncodeURIComponent(
        ToStr(date.year) \o <<"-">> \o PadStart(ToStr(date.month), 2) \o <<"-">>
            \o PadStart(ToStr(date.day), 2) \o <<"T">> \o SubSeq(label, 1, 2)
            \o <<":">> \o SubSeq(label, 4, 5))

(***************************************************************************)
(* C1.  handleChangeDate(d) leaves selectedSlot null and selectedDate = d  *)
(* in whatever state it is called; no delivery of an availability response *)
(* touches the slot (it is cleared by the date change itself, before any   *)
(* response for the new date); and a null slot becomes non-null only by a  *)
(* handleSelectSlot with a non-null slot.                                  *)
(***************************************************************************)
C1_DateChangeClearsSlot ==
    [][ /\ \A d \in FlowDates :
              HandleChangeDate(d) => selectedSlot' = NoSlot /\ selectedDate' = d
        /\ pendingInvalidate' > pendingInvalidate => selectedSlot' = NoSlot
        /\ cache' # cache => selectedSlot' = selectedSlot
        /\ (selectedSlot = NoSlot /\ selectedSlot' # NoSlot) =>
              \E i \in 1..Len(TimeSlots) :
                  HandleSelectSlot(TimeSlots[i]) /\ TimeSlots[i] # NoSlot ]_vars

\* A date change has acted on a state that held data for the new date
\* already, and its invalidation timeout has not fired yet.
C1_Witness ==
    /\ pendingInvalidate > 0
    /\ selectedDate = D2
    /\ selectedSlot = NoSlot
    /\ DataShown # NoData
    /\ Len(TimeSlots) > 0

(***************************************************************************)
(* C2.  In every reachable state a non-null selectedSlot encodes the       *)
(* current selectedDate and a time of day picked from the slot list shown  *)
(* for that date.                                                          *)
(***************************************************************************)
C2_SlotDerivedFromOfferedList ==
    selectedSlot # NoSlot =>
        /\ slotOrigin.kind = "picked"
        /\ slotOrigin.date = selectedDate
        /\ selectedSlot = VerbatimSlot(selectedDate, slotOrigin.label)

(***************************************************************************)
(* C3.  The data the slot list is computed from is the response to a       *)
(* request issued for the current query key (eventId, timezone, formatted  *)
(* selected date), never the response to a request for a superseded key.   *)
(***************************************************************************)
C3_ShownDataBelongsToCurrentKey ==
    /\ DataShown # NoData => DataShown.forKey = CurrentKey
    /\ TimeSlots = ResolveTimeSlots(selectedDate, DataFor(cache, CurrentKey),
                                    timezone, browserOffset)
    /\ \A e \in cache : e.key # CurrentKey => e # DataShown

\* Data is shown for the current key while the cache holds the response of
\* a superseded key and a request of another superseded key is in flight.
C3_Witness ==
    /\ DataShown # NoData
    /\ \E e \in cache : e.key # CurrentKey
    /\ \E key \in fetching : key # CurrentKey

(***************************************************************************)
(* C4.  At most one booking-submission request is in flight per            *)
(* BookingForm at any time: a submit issued while a previous submission is *)
(* still pending sends no second request.                                  *)
(***************************************************************************)
C4_AtMostOneSubmissionInFlight == inFlight <= 1

(***************************************************************************)
(* C5.  When a booking submission fails (network or server-reported        *)
(* error) the booking state is unchanged: selectedDate, selectedSlot,      *)
(* timezone, hourType and next keep their values, isSuccess stays as it    *)
(* was, no meeting link is stored, and the form is no longer pending.      *)
(***************************************************************************)
C5_FailureLeavesBookingState ==
    [][ BookingFailure =>
            /\ UNCHANGED <<selectedDate, selectedSlot, timezone, hourType, next>>
            /\ isSuccess' = isSuccess
            /\ meetLink' = meetLink
            /\ mutationStatus' # "pending" ]_vars

(***************************************************************************)
(* C8.  For every encoded slot 'YYYY-MM-DDTHH:MM' and every duration of at *)
(* least one minute, the submitted endTime is the UTC wall-clock instant   *)
(* exactly `duration` minutes after the start, written 'YYYY-MM-DDTHH:MM', *)
(* with carries across hour, day, month and year boundaries.  The          *)
(* reference below carries by hand: minutes into hours, hours into days,   *)
(* and days one at a time through the month lengths.                       *)
(***************************************************************************)
DayAfter(date) ==
    IF date.day < DaysInMonth(date.year, date.month)
    THEN MkDate(date.year, date.month, date.day + 1)
    ELSE IF date.month < 12 THEN MkDate(date.year, date.month + 1, 1)
    ELSE MkDate(date.year + 1, 1, 1)

RECURSIVE DaysAfter(_, _)
DaysAfter(date, n) == IF n = 0 THEN date ELSE DaysAfter(DayAfter(date), n - 1)

MinutesLater(start, dur) ==
    LET date == MkDate(ParseInt(SubSeq(start, 1, 4)), ParseInt(SubSeq(start, 6, 7)),
                       ParseInt(SubSeq(start, 9, 10)))
        minutes == ParseInt(SubSeq(start, 15, 16)) + dur
        hours == ParseInt(SubSeq(start, 12, 13)) + (minutes \div 60)
    IN  FormatYmd(DaysAfter(date, hours \div 24)) \o <<"T">>
            \o PadStart(ToStr(hours % 24), 2) \o <<":">>
            \o PadStart(ToStr(minutes % 60), 2)

C8_EndTimeIsStartPlusDuration ==
    lastPayload # NoPayload =>
        /\ duration >= 1
        /\ Len(lastPayload.startTime) = 16
        /\ lastPayload.endTime = MinutesLater(lastPayload.startTime, duration)

C8_Witness ==
    /\ lastPayload # NoPayload
    /\ duration = 60
    /\ lastPayload.startTime = FormatYmd(MkDate(2024, 12, 31)) \o <<"T">> \o T2330
    /\ lastPayload.endTime = FormatYmd(MkDate(2025, 1, 1)) \o <<"T">>
                                \o <<"0", "0", ":", "3", "0">>

(***************************************************************************)
(* C6.  Slot resolution prefers the exact date: whenever the availability  *)
(* list holds a day whose dateStr equals the selected date's 'yyyy-MM-dd'  *)
(* string, the resolved slots are those of that day, wherever a day that   *)
(* matches the selected date's weekday name stands in the list.            *)
(***************************************************************************)
FirstIndex(S) == CHOOSE i \in S : \A j \in S : i <= j

ExactDays(days, date) == {i \in 1..Len(days) : days[i].dateStr = FormatYmd(date)}

WeekdayDays(days, date) == {i \in 1..Len(days) : days[i].day = FormatWeekday(date)}

C7_ResolvedSlotsOfMatchedDay ==
    IF selectedDate = NoDate \/ DataShown = NoData THEN TimeSlots = <<>>
    ELSE IF ~DataShown.hasData THEN TimeSlots = <<>>
    ELSE LET days == DataShown.data
             exact == ExactDays(days, selectedDate)
             byDay == WeekdayDays(days, selectedDate)
         IN  TimeSlots = IF exact # {} THEN SlotsOrEmpty(days[FirstIndex(exact)])
                         ELSE IF byDay # {} THEN SlotsOrEmpty(days[FirstIndex(byDay)])
                         ELSE <<>>

(***************************************************************************)
(* C9.  Round trip of the slot codec: for every date D and time-of-day T,  *)
(* decoding the slot handleSelectSlot encodes from (D, T) gives, for every *)
(* timezone and both hour formats, the label shown for slot T.             *)
(***************************************************************************)
C9_DecodeOfEncodedSlotIsLabel ==
    [][ \A slot \in CodecLabels :
            (HandleSelectSlot(slot) /\ selectedDate # NoDate) =>
                \A zone \in Zones, h \in {"12h", "24h"} :
                    DecodeSlot(selectedSlot', zone, h) = FormatSlot(slot, zone, h) ]_vars

(***************************************************************************)
(* C10.  handleSelectSlot(slot): selectedSlot becomes null when no date is *)
(* selected or slot is null or empty; otherwise it becomes the             *)
(* percent-encoding of 'YYYY-MM-DDTHH:MM' with the selected date's year,   *)
(* month and day and exactly the label's hour and minute.                  *)
(***************************************************************************)
C10_SelectSlotEncodesLabelVerbatim ==
    [][ \A slot \in CodecLabels \cup {NoSlot} :
            HandleSelectSlot(slot) =>
                selectedSlot' = IF selectedDate = NoDate \/ slot = NoSlot THEN NoSlot
                                ELSE VerbatimSlot(selectedDate, slot) ]_vars

(***************************************************************************)
(* C11.  handleSuccess(v) leaves isSuccess true for v true and for v       *)
(* false; no handleSuccess call changes isSuccess from true to false.      *)
(***************************************************************************)
C11_HandleSuccessForcesTrue ==
    [][ \A value \in BOOLEAN :
            HandleSuccess(value) => isSuccess' = TRUE ]_vars

C11_Witness ==
    /\ isSuccess = TRUE
    /\ mutationStatus = "idle"
    /\ selectedSlot # NoSlot
    /\ next = TRUE

(***************************************************************************)
(* C12.  handleSelectDate(date) replaces selectedDate with date and leaves *)
(* selectedSlot, next, timezone, hourType and isSuccess unchanged: a slot  *)
(* selected before is not cleared.                                         *)
(***************************************************************************)
C12_SelectDateChangesOnlyDate ==
    [][ \A d \in FlowDates :
            HandleSelectDate(d) =>
                /\ selectedDate' = d
                /\ UNCHANGED <<selectedSlot, next, timezone, hourType, isSuccess>> ]_vars

C12_Witness ==
    /\ selectedSlot # NoSlot
    /\ slotOrigin = PickOrigin(D1, T0900)
    /\ selectedDate = D2

(***************************************************************************)
(* C16.  For every calendar identifier that starts, in any letter case,    *)
(* with one of the Microsoft Graph markers AQMkAD, AAMkAD, MQMkAD, OGMkAD, *)
(* getCalendarProvider returns OUTLOOK whatever the calendar name is.      *)
(***************************************************************************)
GraphMarkers == {"AQMkAD", "AAMkAD", "MQMkAD", "OGMkAD"}

StartsWithIgnoringCase(text, prefix) ==
    /\ Len(text) >= Len(prefix)
    /\ ToLowerCase(SubSeq(text, 1, Len(prefix))) = ToLowerCase(prefix)

HasGraphId(c) ==
    /\ c.calendarId # Absent
    /\ \E marker \in GraphMarkers : StartsWithIgnoringCase(c.calendarId[1], marker)

C16_GraphIdIsOutlook ==
    (classification.byPattern # NotCalled /\ HasGraphId(classification)) =>
        classification.byPattern = OUTLOOK

C16_Witness ==
    /\ classification.calendarId = Some("aamkad77")
    /\ classification.calendarName = Some("me@gmail.com")
    /\ classification.byPattern = OUTLOOK

(***************************************************************************)
(* C17.  For the identifier 'primary' with no calendar name and no         *)
(* metadata, getCalendarProvider and getCalendarProviderFromMetadata       *)
(* return GOOGLE.                                                          *)
(***************************************************************************)
C17_PrimaryIsGoogle ==
    (/\ classification.calendarId = Some("primary")
     /\ classification.calendarName = Absent
     /\ classification.metadata = Absent) =>
        /\ classification.byPattern \in {NotCalled, GOOGLE}
        /\ classification.byMetadata \in {NotCalled, GOOGLE}

C17_Witness ==
    /\ classification.calendarId = Some("primary")
    /\ classification.calendarName = Absent
    /\ classification.metadata = Absent
    /\ classification.byPattern = GOOGLE
    /\ classification.byMetadata = GOOGLE

(***************************************************************************)
(* C18.  Metadata wins over heuristics: a provider hint that contains      *)
(* 'outlook' or 'microsoft' (any letter case) gives OUTLOOK, a hint that   *)
(* contains 'google' gives GOOGLE, for every id and name; only without a   *)
(* usable hint is the id/name heuristic result returned.                   *)
(*                                                                         *)
(* As stated (C18_HintDecidesProvider) this fails for a hint that contains *)
(* both 'google' and 'outlook' or 'microsoft'.  What holds                 *)
(* (C18_HintDecidesOutlookFirst): 'outlook' or 'microsoft' gives OUTLOOK;  *)
(* 'google' without either of them gives GOOGLE.                           *)
(***************************************************************************)
HintText(c) ==
    IF Truthy(ProviderHint(c.metadata)) THEN ToLowerCase(ProviderHint(c.metadata)[1])
    ELSE ""

HintsOutlook(c) == Includes(HintText(c), "outlook") \/ Includes(HintText(c), "microsoft")

HintsGoogle(c) == Includes(HintText(c), "google")

C18_HintDecidesProvider ==
    classification.byMetadata # NotCalled =>
        /\ HintsOutlook(classification) => classification.byMetadata = OUTLOOK
        /\ HintsGoogle(classification) => classification.byMetadata = GOOGLE
        /\ (~HintsOutlook(classification) /\ ~HintsGoogle(classification)) =>
               classification.byMetadata =
                   GetCalendarProvider(classification.calendarId,
                                       classification.calendarName)

C18_HintDecidesOutlookFirst ==
    classification.byMetadata # NotCalled =>
        /\ HintsOutlook(classification) => classification.byMetadata = OUTLOOK
        /\ (HintsGoogle(classification) /\ ~HintsOutlook(classification)) =>
               classification.byMetadata = GOOGLE
        /\ (~HintsOutlook(classification) /\ ~HintsGoogle(classification)) =>
               classification.byMetadata =
                   GetCalendarProvider(classification.calendarId,
                                       classification.calendarName)

C18_Witness ==
    /\ classification.calendarId = Some("AQMkADAwATM0")
    /\ classification.metadata = Metadata(Some("google"))
    /\ classification.byPattern = OUTLOOK
    /\ classification.byMetadata = GOOGLE

(***************************************************************************)
(* C19.  The classifier is total: for every combination of present,        *)
(* absent or empty id, name and metadata it returns GOOGLE or OUTLOOK, and *)
(* it returns GOOGLE whenever no Graph-ID, Outlook or Google pattern       *)
(* matches, also when both id and name are absent.                         *)
(***************************************************************************)
NoPatternMatches(c) ==
    ~SomeIncluded(MicrosoftGraphPatterns \cup OutlookPatterns \cup GooglePatterns,
                  SearchTexts(c.calendarId, c.calendarName))

C19_ClassifierIsTotal ==
    /\ classification.byPattern \in {NotCalled, GOOGLE, OUTLOOK}
    /\ classification.byMetadata \in {NotCalled, GOOGLE, OUTLOOK}
    /\ NoPatternMatches(classification) =>
           /\ classification.byPattern \in {NotCalled, GOOGLE}
           /\ (~HintsOutlook(classification) /\ ~HintsGoogle(classification)) =>
                  classification.byMetadata \in {NotCalled, GOOGLE}

C19_Witness ==
    /\ classification.calendarId = Absent
    /\ classification.calendarName = Some("")
    /\ classification.metadata = Absent
    /\ classification.byPattern = GOOGLE
    /\ classification.byMetadata = GOOGLE

(***************************************************************************)
(* C13.  In the new-event dialog the Create button is enabled only when a  *)
(* platform is selected, that platform's connection status is connected,   *)
(* the form is valid and the dialog shows no pending create request.       *)
(* Whether it is enabled is the same for every calendar the selector       *)
(* offers, supported combination or not: with Zoom selected and connected  *)
(* and no calendar chosen the button is enabled.                           *)
(***************************************************************************)
WithCalendar(d, calendar) ==
    [d EXCEPT !.selectedCalendarId = calendar[1],
              !.selectedCalendarName = calendar[2],
              !.form.calendar_id = calendar[1],
              !.form.calendar_name = calendar[2]]

C14_LocationTypeFollowsTable ==
    classification.locationType # NotCalled =>
        LET classified == GetCalendarProvider(classification.calendarId,
                                              classification.calendarName)
        IN  /\ classification.locationType # Throws
            /\ classification.conferencePlatform = "GOOGLE_MEET" =>
                   classification.locationType = "GOOGLE_MEET_AND_CALENDAR"
            /\ (classification.conferencePlatform = "ZOOM" /\ classified = OUTLOOK) =>
                   classification.locationType = "OUTLOOK_WITH_ZOOM"
            /\ (classification.conferencePlatform = "ZOOM" /\ classified # OUTLOOK) =>
                   classification.locationType = "GOOGLE_WITH_ZOOM"
            /\ classification.conferencePlatform = "MICROSOFT_TEAMS" =>
                   classification.locationType = "OUTLOOK_WITH_TEAMS"

\* Zoom with an Outlook calendar.
C14_Witness ==
    /\ classification.conferencePlatform = "ZOOM"
    /\ classification.calendarId = Some("AQMkADAwATM0")
    /\ classification.locationType = "OUTLOOK_WITH_ZOOM"

(***************************************************************************)
(* C15.  The provider the classifier returns is used for display only:     *)
(* for the platform and calendar of a submission, the data handed to the   *)
(* create request, its locationType in particular, is what onSubmit would  *)
(* build under either provider, and the preparation does not fail.         *)
(***************************************************************************)
CalendarProvider == {GOOGLE, OUTLOOK}

C15_PayloadIndependentOfClassifier ==
    /\ dialog.toast # "Error preparing event data"
    /\ dialog.created # NoCreate =>
           \A calendarProvider \in CalendarProvider :
               dialog.created.submitData.locationType =
                   LocationTypeOf(GetConferencePlatform(dialog.created.uiSelection),
                                  calendarProvider)

(***************************************************************************)
(* C20.  Once the OAuth return handler has processed a URL, none of the    *)
(* parameters success, error, app_type and error_message remains in it,    *)
(* whichever of them were present on arrival.                              *)
(***************************************************************************)
C20_OAuthParamsStripped ==
    oauth.effect = "done" => oauth.params = NoParams

(***************************************************************************)
(* C21.  Whenever a request through the authenticated API instance is      *)
(* answered with status 401, the session (user, access token, expiry) is   *)
(* cleared, the browser is sent to the entry page, and the call is still   *)
(* rejected to its caller.                                                 *)
(***************************************************************************)
AnsweredWith(status) ==
    /\ api.state = "rejected"
    /\ api.error.hasResponse
    /\ api.error.status = status

C21_Every401ClearsSession ==
    (api.instance = "API" /\ AnsweredWith(401)) =>
        /\ session = ClearedSession
        /\ page = "entry"
        /\ api.rejection # NoRejection

(***************************************************************************)
(* C27.  Every failed request through API or PublicAPI, a failure without  *)
(* a response included, is rejected with a CustomError that carries an     *)
(* errorCode (UNKNOWN_ERROR when the server gave none); the error handler  *)
(* of the response interceptor throws nothing of its own.                  *)
(***************************************************************************)
C27_FailuresRejectWithCustomError ==
    api.state = "rejected" =>
        /\ api.rejection.name = "CustomError"
        /\ api.rejection.errorCode # Undefined
        /\ api.rejection.errorCode # ""

ClickStartsCheck ==
    \A value \in VideoConferencingPlatform :
        (HandleLocationTypeChange(value) /\ dialog.connectionStatus[value] # "true") =>
            /\ dialog'.isChecking
            /\ dialog'.checking = Append(dialog.checking, value)
            /\ dialog'.selectedLocationType = value
            /\ dialog'.form = dialog.form

ConnectedAnswerConnects ==
    \A i \in 1..Len(dialog.checking) :
        CheckResolves(i, TRUE) =>
            /\ dialog'.connectionStatus[dialog.checking[i]] = "true"
            /\ dialog'.form.locationType = dialog.checking[i]
            /\ ~dialog'.isChecking

OtherAnswerDisconnects ==
    \A i \in 1..Len(dialog.checking) :
        ((CheckResolves(i, FALSE) \/ \E error \in DialogErrors : CheckRejects(i, error))
             /\ page' = "app") =>
            /\ dialog'.connectionStatus[dialog.checking[i]] = "false"
            /\ dialog'.error # ""
            /\ dialog'.form = dialog.form
            /\ ~dialog'.isChecking

C23_PlatformSelectionStateMachine ==
    [][ClickStartsCheck /\ ConnectedAnswerConnects /\ OtherAnswerDisconnects]_vars

\* A check that failed after another platform was connected: the form
\* still names the connected platform.
C23_Witness ==
    /\ dialog.connectionStatus["GOOGLE_MEET_AND_CALENDAR"] = "true"
    /\ dialog.connectionStatus["ZOOM_MEETING"] = "false"
    /\ dialog.selectedLocationType = "ZOOM_MEETING"
    /\ dialog.form.locationType = "GOOGLE_MEET_AND_CALENDAR"
    /\ dialog.error = "check failed"
    /\ ~dialog.isChecking

(***************************************************************************)
(* C24.  A click on a platform already known as connected sends no check   *)
(* request and sets the form's locationType to that platform at once; a    *)
(* platform known as connected stays so until a successful creation        *)
(* resets the dialog (or the page is left).                                *)
(***************************************************************************)
CachedClickSkipsCheck ==
    \A value \in VideoConferencingPlatform :
        (HandleLocationTypeChange(value) /\ dialog.connectionStatus[value] = "true") =>
            /\ dialog'.checking = dialog.checking
            /\ ~dialog'.isChecking
            /\ dialog'.selectedLocationType = value
            /\ dialog'.form.locationType = value
            /\ dialog'.connectionStatus = dialog.connectionStatus

ConnectedIsKept ==
    \A value \in VideoConferencingPlatform :
        (dialog.connectionStatus[value] = "true" /\ dialog'.connectionStatus[value] # "true") =>
            \/ CreateSucceeds(TRUE)
            \/ page' = "entry"

C24_ConnectedPlatformIsNotRechecked ==
    [][CachedClickSkipsCheck /\ ConnectedIsKept]_vars

\* Zoom selected again from the cache after Google Meet was chosen.
C24_Witness ==
    /\ dialog.connectionStatus["ZOOM_MEETING"] = "true"
    /\ dialog.connectionStatus["GOOGLE_MEET_AND_CALENDAR"] = "true"
    /\ dialog.selectedLocationType = "ZOOM_MEETING"
    /\ dialog.form.locationType = "ZOOM_MEETING"
    /\ dialog.checking = <<>>
    /\ dialog.toast = ""

(***************************************************************************)
(* C25.  At most one connection check is in flight in the dialog: while a  *)
(* check is pending isChecking is true and no click starts another check,  *)
(* for the same or another platform.                                       *)
(***************************************************************************)
C25_AtMostOneCheckInFlight ==
    /\ Len(dialog.checking) <= 1
    /\ Len(dialog.checking) = 1 => dialog.isChecking

\* A check pending for Zoom after Google Meet was connected.
C25_Witness ==
    /\ dialog.connectionStatus["GOOGLE_MEET_AND_CALENDAR"] = "true"
    /\ dialog.checking = <<"ZOOM_MEETING">>
    /\ dialog.isChecking

(***************************************************************************)
(* C28.  Whenever the Create button is enabled, the form's locationType is *)
(* the platform shown as selected, so the platform submitted is the one    *)
(* highlighted.                                                            *)
(***************************************************************************)
C28_SubmittedPlatformIsSelected ==
    CreateEnabled(dialog) => dialog.form.locationType = dialog.selectedLocationType

\* Google Meet selected again from the cache after Zoom was connected, with
\* the button enabled.
C28_Witness ==
    /\ CreateEnabled(dialog)
    /\ dialog.isOpen
    /\ dialog.connectionStatus["ZOOM_MEETING"] = "true"
    /\ dialog.selectedLocationType = "GOOGLE_MEET_AND_CALENDAR"

(***************************************************************************)
(* C29.  Every connection check ends the checking state: if the check      *)
(* request is answered or fails in the end, isChecking returns to false    *)
(* and the platform buttons can be clicked again, whatever the outcome.    *)
(***************************************************************************)
C29_CheckingEnds ==
    dialog.isChecking ~> ~dialog.isChecking

\* The check of Zoom has thrown and the buttons are clickable again.
C29_Witness ==
    /\ dialog.selectedLocationType = "ZOOM_MEETING"
    /\ dialog.connectionStatus["ZOOM_MEETING"] = "false"
    /\ dialog.error = "check failed"
    /\ dialog.checking = <<>>
    /\ ~dialog.isChecking

(***************************************************************************)
(* C30.  After an OAuth return the handling flag ends: whichever of        *)
(* success, error, app_type and error_message arrive, isHandlingOAuth      *)
(* becomes false in the end and the Integrations page leaves its loader.   *)
(***************************************************************************)
C30_HandlingEnds ==
    IsHandlingOAuth(oauth) ~> ~IsHandlingOAuth(oauth)

(***************************************************************************)
(* C26.  The classifier applies its rules in priority order to the         *)
(* lowercased id and name: a text that matches a Graph-ID or an Outlook    *)
(* pattern gives OUTLOOK even when it matches a Google pattern as well     *)
(* (id 'primary' with 'outlook' in the name), and a Google pattern gives   *)
(* GOOGLE only when no Graph-ID and no Outlook pattern matches.            *)
(***************************************************************************)
MatchesOutlook(calendarId, calendarName) ==
    \E pattern \in MicrosoftGraphPatterns \cup OutlookPatterns :
        Includes(SearchTexts(calendarId, calendarName), pattern)

MatchesGoogle(calendarId, calendarName) ==
    \E pattern \in GooglePatterns :
        Includes(SearchTexts(calendarId, calendarName), pattern)

C26_OutlookPatternsBeforeGoogle ==
    classification.byPattern # NotCalled =>
        LET outlook == MatchesOutlook(classification.calendarId, classification.calendarName)
            google == MatchesGoogle(classification.calendarId, classification.calendarName)
        IN  /\ outlook => classification.byPattern = OUTLOOK
            /\ (google /\ ~outlook) => classification.byPattern = GOOGLE
            /\ (google /\ classification.byPattern = GOOGLE) => ~outlook

C26_Witness ==
    /\ classification.calendarId = Some("primary")
    /\ classification.calendarName = Some("Outlook work")
    /\ classification.byPattern = OUTLOOK

====
